---- MODULE Spec2Model ----
(***************************************************************************)
(* Verification model of the TuneShredder audio fingerprint indexer and    *)
(* matcher.  The repository holds several variants of the same program;    *)
(* each specification below models one of them, named by its source file:  *)
(*                                                                         *)
(*   SpecBuild  the sequential resumable builder (unnamed/part_010)        *)
(*   SpecPar    the concurrent resumable builder (unnamed/part_006)        *)
(*   SpecCkpt   the concurrent checkpointing builder (index.js, 2nd part)  *)
(*   SpecDup    the duplicate finder (match.js, findDuplicates)             *)
(*   SpecClip   the clip lookup (match.js, matchFileAgainstIndex)           *)
(*   SpecHash   the indexer's landmark hasher (index.js, makeHashes)        *)
(*   SpecSelf   the lookup of a clip of an indexed track (index.js hasher,  *)
(*              match.js hasher and matchFileAgainstIndex)                  *)
(*   SpecWork   the worker orchestrator (unnamed/part_005, worker.js)      *)
(*   SpecRead   both matchers run on one index file (match.js)             *)
(*   SpecSplit  the sharded writer under concurrent worker loops           *)
(*              (unnamed/part_006, writeSplit)                             *)
(*   SpecPeaks  the worker's peak picker (worker.js, makePeaks)            *)
(*   SpecTopK   the top-K selections (unnamed/part_010 topK, index.js      *)
(*              topKIndicesFloat32)                                        *)
(*   SpecPair   the worker's landmark pairing (worker.js, file handler)    *)
(*   SpecFrames the worker's streaming framing (worker.js, eachFrame)      *)
(*   SpecPrint  the fingerprint of one file: batch (unnamed/part_010,      *)
(*              unnamed/part_006) and streaming (unnamed/part_009)         *)
(*   SpecHot    the hot-writer builder (index.js, 1st part); SpecHotLive   *)
(*              adds the fairness of its I/O steps                         *)
(*                                                                         *)
(* Values that JavaScript stores as "a number or an array" (the second     *)
(* element of an index entry) are modelled by one record shape, Val.       *)
(***************************************************************************)
EXTENDS Integers, Sequences, FiniteSets, TLC

VARIABLES
    land,       \* per listed file: the landmarks (key, t) its audio hashes to
    present,    \* how many files of Listing are in the directory at run 1
    run,        \* number of buildIndex runs started so far
    phase,      \* "idle" | "loop" | "done": where buildIndex stands
    files,      \* buildIndex: the files still to index in this run
    idx,        \* buildIndex: loop position in files (1-based)
    fileId,     \* buildIndex: next track id to hand out
    index,      \* buildIndex: key -> bucket (a sequence of entries)
    meta,       \* buildIndex: track names in track-id order
    disk,       \* the output file: <<>> when absent, else <<document>>
    retained,   \* history: per key, the postings merge pushed into the index,
                \* each with the name of the file that produced it
    calls,      \* history: per file, how many fingerprints of it succeeded
    pc,         \* per worker loop: "take" | "await" | "write" | "exit"
    cur,        \* per worker loop: the file and track id it is working on
    snap,       \* per worker loop: the document its pending write serialized
    tmpPath,    \* file system: inode that "<out>.tmp" names (0: no such file)
    outPath,    \* file system: inode that the output path names (0: none)
    inode,      \* file system: the content of each inode, a sequence of chunks
    fd,         \* per writer: the inode its open file handle refers to
    wpos,       \* per writer: how many chunks of its document it has written
    flat,       \* matcher input as merged: key -> flat [track_id, t] entries
    indexObj,   \* the index as stored: flat, or regrouped per track
    shape,      \* "flat" | "grouped": how indexObj is stored
    called,     \* whether findDuplicates has returned
    opts,       \* findDuplicates: the options of its call
    cleaned,    \* findDuplicates: what dedupeIndex returned to it
    results,    \* findDuplicates: what it returned
    rawMeta,    \* clip lookup: the meta list of the index file read
    qHashes,    \* clip lookup: the landmarks {key, t} of the query file
    topN,       \* clip lookup: the topN argument of the call
    looked,     \* clip lookup: whether matchFileAgainstIndex has returned
    matches,    \* clip lookup: the matches it returned
    frames,     \* hasher: per frame of a track, its peaks and magnitudes
    hstage,     \* hasher: "new" | "hashed" | "cut" | "matched"
    hashes,     \* hasher: the landmarks {key, t} of the whole track
    start,      \* hasher: the frame at which the clip of the track starts
    clipHashes, \* hasher: the landmarks {key, t} of the clip
    tracks,     \* orchestrator: the names in the tracks table, in id order
    fp,         \* orchestrator: the rows <<id, batch>> of the fp table
    inbox,      \* per fingerprint worker: the messages posted to it
    wstate,     \* per fingerprint worker: "up" | "draining" | "exited" | "lost"
    inflight,   \* the file messages whose handler is awaiting the decoder
    mpc,        \* orchestrator main: "start" | "await" | "done"
    reported,   \* the names a worker logged as ERROR
    processed,  \* the names a worker reported as done
    ws,         \* per writer: the frame of its writeSplit call in progress
    shards,     \* per output file name: <<>> when absent, else <<document>>
    pframe,     \* peak picker: the squared magnitudes of the frame, per bin
    ptop,       \* peak picker: C.top of the worker's configuration
    picked,     \* peak picker: <<>> before the call, else <<{bins, n}>>
    arg,        \* a function studied on its own: the arguments of its call
    ret,        \* that function: <<>> before the call, else <<its result>>
    sbytes,     \* eachFrame: the length in bytes of the decoder's output
    ef,         \* eachFrame: its locals, the frames it delivered, its result
    hfiles,     \* hot-writer build: the listing
    hprev,      \* hot-writer build: meta of the artifact found at the start
    hpc,        \* hot-writer build: where buildIndex stands
    hmeta,      \* hot-writer build: meta
    hdone,      \* hot-writer build: the set done
    nextIndex,  \* hot-writer build: the shared cursor into the listing
    nprocessed, \* hot-writer build: the counter processed
    lpc,        \* hot-writer build: where each worker loop stands
    lname,      \* hot-writer build: the file each worker loop waits for
    takes,      \* hot-writer build: per listing position, the loops that took it
    pending,    \* hot writer: its flag pending
    writing,    \* hot writer: its flag writing
    marks,      \* hot writer: the number of markDirty calls so far
    wops,       \* the atomicWrite calls in progress
    tmpFile,    \* whether "<out>.tmp" exists
    saved,      \* the hot-writer writes that completed
    failed      \* whether an atomicWrite has rejected

buildVars == <<land, present, run, phase, files, idx, fileId, index, meta,
               disk, retained, calls>>
loopVars == <<pc, cur, snap>>
fsVars == <<tmpPath, outPath, inode, fd, wpos>>
dupVars == <<flat, indexObj, shape, called, opts, cleaned, results>>
clipVars == <<rawMeta, qHashes, topN, looked, matches>>
\* The variables of the other programs, which a program leaves alone.
hashVars == <<frames, hstage, hashes, start, clipHashes>>
workVars == <<tracks, fp, inbox, wstate, inflight, mpc, reported, processed>>
splitVars == <<ws, shards>>
peakVars == <<pframe, ptop, picked>>
callVars == <<arg, ret>>
streamVars == <<sbytes, ef>>
hotVars == <<hfiles, hprev, hpc, hmeta, hdone, nextIndex, nprocessed, lpc, lname,
            takes, pending, writing, marks, wops, tmpFile, saved, failed>>
extVars == <<workVars, splitVars, peakVars, callVars, streamVars, hotVars>>
notBuild == <<fsVars, dupVars, clipVars, hashVars, extVars>>
notCkpt == <<dupVars, clipVars, hashVars, extVars>>
notDup == <<buildVars, loopVars, fsVars, clipVars, hashVars, extVars>>
notClip == <<buildVars, loopVars, fsVars, called, opts, cleaned, results,
             hashVars, extVars>>
notHash == <<buildVars, loopVars, fsVars, called, opts, cleaned, results,
             extVars>>
notWork == <<buildVars, loopVars, fsVars, dupVars, clipVars, hashVars,
            splitVars, peakVars, callVars, streamVars, hotVars>>
notSplit == <<fsVars, dupVars, clipVars, hashVars, workVars, peakVars,
             callVars, streamVars, hotVars>>
notPeak == <<buildVars, loopVars, fsVars, dupVars, clipVars, hashVars,
            workVars, splitVars, callVars, streamVars, hotVars>>
notCall == <<buildVars, loopVars, fsVars, dupVars, clipVars, hashVars,
            workVars, splitVars, peakVars, streamVars, hotVars>>
notStream == <<buildVars, loopVars, fsVars, dupVars, clipVars, hashVars,
              workVars, splitVars, peakVars, callVars, hotVars>>
notHot == <<buildVars, loopVars, fsVars, dupVars, clipVars, hashVars,
           workVars, splitVars, peakVars, callVars, streamVars>>
vars == <<buildVars, loopVars, fsVars, dupVars, clipVars, hashVars, extVars>>

----------------------------------------------------------------------------
(* Bounds of the model and scaled program constants.                       *)

\* CFG.bucket (250 in the source), scaled down so that the cap is reached.
bucket == 2
\* Longest landmark list of one file.
MaxLandmarks == 2
\* Largest anchor frame index.
MaxTime == 1
\* buildIndex runs over the same output file (first run, then a resume).
MaxRuns == 2
\* os.cpus().length: the most worker loops buildIndex starts.
NLoops == 2

\* Number of write calls fs.writeFile needs for one document (it writes
\* in chunks of kWriteFileMaxChunkSize bytes).
NChunks == 2

Loops == 1..NLoops
\* The worker loops, and 0: buildIndex itself, for its final write.
Writers == 0..NLoops
Keys == {"k1", "k2"}
Listing == <<"a", "b">>

----------------------------------------------------------------------------
(* JavaScript values: a number, or an array of values.                     *)

NumV(n) == [arr |-> FALSE, n |-> n, items |-> <<>>]
ArrV(s) == [arr |-> TRUE, n |-> 0, items |-> s]

Min(a, b) == IF a < b THEN a ELSE b

RECURSIVE SumSeq(_)
SumSeq(s) == IF s = <<>> THEN 0 ELSE Head(s) + SumSeq(Tail(s))

\* Number(v) as the sort comparator coerces it: an array goes through
\* String(), so [] is 0, [x] is Number(x) and a longer array is NaN.
RECURSIVE ToNumber(_)
ToNumber(v) ==
    IF ~v.arr THEN [nan |-> FALSE, n |-> v.n]
    ELSE IF Len(v.items) = 0 THEN [nan |-> FALSE, n |-> 0]
    ELSE IF Len(v.items) = 1 THEN ToNumber(v.items[1])
    ELSE [nan |-> TRUE, n |-> 0]

\* (a, b) => a - b is positive: NaN is never positive.
CmpGreater(a, b) ==
    LET x == ToNumber(a)
        y == ToNumber(b)
    IN  ~x.nan /\ ~y.nan /\ x.n > y.n

\* Array.prototype.sort with that comparator: a stable insertion sort.
RECURSIVE InsertSorted(_, _)
InsertSorted(s, x) ==
    IF s # <<>> /\ CmpGreater(s[Len(s)], x)
    THEN Append(InsertSorted(SubSeq(s, 1, Len(s) - 1), x), s[Len(s)])
    ELSE Append(s, x)

RECURSIVE SortTimes(_)
SortTimes(s) ==
    IF s = <<>> THEN <<>>
    ELSE InsertSorted(SortTimes(SubSeq(s, 1, Len(s) - 1)), s[Len(s)])

\* The elements of a finite set of integers in ascending order
\* (Object.keys lists integer-like keys in ascending numeric order).
RECURSIVE Ascending(_)
Ascending(S) ==
    IF S = {} THEN <<>>
    ELSE LET m == CHOOSE x \in S : \A y \in S : x <= y
         IN  <<m>> \o Ascending(S \ {m})

EmptyIndex == [k \in Keys |-> <<>>]

----------------------------------------------------------------------------
(* unnamed/part_010: fingerprint, mergeIndex, normalizeBuckets.            *)

\* All landmark lists of a file: at most MaxLandmarks landmarks, in
\* anchor-time order as hashes() emits them.
Landmark == [key : Keys, t : 0..MaxTime]
LandSeqs ==
    { s \in UNION { [1..n -> Landmark] : n \in 0..MaxLandmarks } :
        \A i \in 1..(Len(s) - 1) : s[i].t <= s[i + 1].t }

RECURSIVE fpFrom(_, _, _, _)
fpFrom(hs, id, i, m) ==
    IF i > Len(hs) THEN m
    ELSE LET a == m[hs[i].key]
         IN  fpFrom(hs, id, i + 1,
                    IF Len(a) < bucket
                    THEN [m EXCEPT ![hs[i].key] =
                            Append(a, [fid |-> id, t |-> NumV(hs[i].t)])]
                    ELSE m)

\* fingerprint(file, fileId): the per-file map, each bucket capped.
fingerprint(hs, id) == fpFrom(hs, id, 1, EmptyIndex)

RECURSIVE pushWhile(_, _, _)
pushWhile(a, b, i) ==
    IF i <= Len(b) /\ Len(a) < bucket
    THEN pushWhile(Append(a, b[i]), b, i + 1)
    ELSE a

mergeIndex(dst, src) == [k \in Keys |-> pushWhile(dst[k], src[k], 1)]

\* What mergeIndex pushed for key k (the postings kept, not dropped).
pushed(dst, src, k) ==
    SubSeq(pushWhile(dst[k], src[k], 1), Len(dst[k]) + 1,
           Len(pushWhile(dst[k], src[k], 1)))

\* History only: the pushed postings with the file that produced them.
tagged(ps, name) ==
    [i \in DOMAIN ps |-> [fid |-> ps[i].fid, t |-> ps[i].t, name |-> name]]

\* per[fid]: the second elements of the entries of one track, in order.
RECURSIVE perOf(_, _)
perOf(b, f) ==
    IF b = <<>> THEN <<>>
    ELSE (IF Head(b).fid = f THEN <<Head(b).t>> ELSE <<>>) \o perOf(Tail(b), f)

normalizeBucket010(b) ==
    LET fids == Ascending({ b[i].fid : i \in DOMAIN b })
    IN  [j \in DOMAIN fids |->
            [fid |-> fids[j], t |-> ArrV(SortTimes(perOf(b, fids[j])))]]

normalizeBuckets(ix) == [k \in Keys |-> normalizeBucket010(ix[k])]

\* writeSplit for a document below MAX_BYTES: one atomicWrite of the
\* document serialized at the call (JSON keeps integers and arrays as is).
writeSplit(ix, mt) == <<[index |-> ix, meta |-> mt]>>

----------------------------------------------------------------------------
(* unnamed/part_010: buildIndex.                                           *)

\* readdir: the first run sees a prefix of the listing, later runs all.
Dir == IF run = 0 THEN SubSeq(Listing, 1, present) ELSE Listing

InMeta(mt, name) == \E i \in DOMAIN mt : mt[i] = name

NotDone(mt, fs) == SelectSeq(fs, LAMBDA f : ~InMeta(mt, f))

InitInputs ==
    /\ land \in [{Listing[i] : i \in DOMAIN Listing} -> LandSeqs]
    /\ present \in 0..Len(Listing)
    /\ run = 0
    /\ disk = <<>>
    /\ retained = EmptyIndex
    /\ calls = [f \in {Listing[i] : i \in DOMAIN Listing} |-> 0]

NoDoc == [index |-> EmptyIndex, meta |-> <<>>]

LoopsIdle ==
    /\ pc = [l \in Writers |-> "exit"]
    /\ cur = [l \in Writers |-> [name |-> "", fid |-> 0]]
    /\ snap = [l \in Writers |-> NoDoc]

\* No temporary file, no output file, no open handle.
FsEmpty ==
    /\ tmpPath = 0
    /\ outPath = 0
    /\ inode = <<>>
    /\ fd = [w \in Writers |-> 0]
    /\ wpos = [w \in Writers |-> 0]

\* match.js lines 5-14.  minRatio is kept in hundredths (0.12 is 12).
DEFAULTS ==
    [minMatches |-> 25, minRatio |-> 12, maxBucket |-> 80, dropAbove |-> 120,
     minBucket |-> 2]

\* findDuplicates has not been called.
NotCalled ==
    /\ called = FALSE
    /\ opts = DEFAULTS
    /\ cleaned = EmptyIndex
    /\ results = <<>>

\* No index is given to the matcher.
DupIdle ==
    /\ flat = EmptyIndex
    /\ indexObj = EmptyIndex
    /\ shape = "flat"
    /\ NotCalled

\* matchFileAgainstIndex has not been called.
ClipIdle ==
    /\ rawMeta = <<>>
    /\ qHashes = <<>>
    /\ topN = 0
    /\ looked = FALSE
    /\ matches = <<>>

\* No track is given to the hasher.
HashIdle ==
    /\ frames = <<>>
    /\ hstage = "new"
    /\ hashes = <<>>
    /\ start = 0
    /\ clipHashes = <<>>

\* The programs a specification does not run, at rest.
\* No orchestrator has been started.
WorkIdle ==
    /\ tracks = <<>>
    /\ fp = {}
    /\ inbox = <<>>
    /\ wstate = <<>>
    /\ inflight = {}
    /\ mpc = "start"
    /\ reported = {}
    /\ processed = {}

\* No writeSplit has been called.
SplitIdle ==
    /\ ws = <<>>
    /\ shards = <<>>

\* No frame is given to the peak picker.
PeakIdle ==
    /\ pframe = <<>>
    /\ ptop = 0
    /\ picked = <<>>

\* No function is studied on its own.
CallIdle ==
    /\ arg = <<>>
    /\ ret = <<>>

\* No decoder is running.
StreamIdle ==
    /\ sbytes = 0
    /\ ef = <<>>

\* The hot-writer build has not been called.
HotIdle ==
    /\ hfiles = <<>>
    /\ hprev = <<>>
    /\ hpc = "idle"
    /\ hmeta = <<>>
    /\ hdone = {}
    /\ nextIndex = 0
    /\ nprocessed = 0
    /\ lpc = <<>>
    /\ lname = <<>>
    /\ takes = <<>>
    /\ pending = FALSE
    /\ writing = FALSE
    /\ marks = 0
    /\ wops = <<>>
    /\ tmpFile = FALSE
    /\ saved = <<>>
    /\ failed = FALSE

\* The programs added to the core, at rest, but for the call variables.
RestIdle == WorkIdle /\ SplitIdle /\ PeakIdle /\ StreamIdle /\ HotIdle

ExtIdle == RestIdle /\ CallIdle

OthersIdle == HashIdle /\ ExtIdle

\* buildIndex before its first statement.
BuildIdle ==
    /\ phase = "idle"
    /\ files = <<>>
    /\ idx = 1
    /\ fileId = 0
    /\ index = EmptyIndex
    /\ meta = <<>>

Init ==
    /\ InitInputs
    /\ LoopsIdle
    /\ FsEmpty
    /\ DupIdle
    /\ ClipIdle
    /\ OthersIdle
    /\ BuildIdle

\* Lines 236-257: read the previous artifact, filter the listing.
Start ==
    /\ phase \in {"idle", "done"}
    /\ run < MaxRuns
    /\ run' = run + 1
    /\ LET prevIndex == IF disk # <<>> THEN disk[1].index ELSE EmptyIndex
           prevMeta  == IF disk # <<>> THEN disk[1].meta ELSE <<>>
       IN  /\ index' = prevIndex
           /\ meta' = prevMeta
           /\ files' = NotDone(prevMeta, Dir)
           /\ fileId' = Len(prevMeta)
    /\ idx' = 1
    /\ phase' = "loop"
    /\ UNCHANGED <<notBuild, land, present, disk, retained, calls, loopVars>>

\* Lines 259-273, one iteration whose fingerprint succeeds.
IndexFile ==
    /\ phase = "loop"
    /\ idx <= Len(files)
    /\ LET name   == files[idx]
           src    == fingerprint(land[name], fileId)
           merged == mergeIndex(index, src)
           norm   == normalizeBuckets(merged)
       IN  /\ index' = norm
           /\ meta' = Append(meta, name)
           /\ disk' = writeSplit(norm, Append(meta, name))
           /\ retained' = [k \in Keys |->
                              retained[k] \o tagged(pushed(index, src, k), name)]
           /\ calls' = [calls EXCEPT ![name] = @ + 1]
    /\ fileId' = fileId + 1
    /\ idx' = idx + 1
    /\ UNCHANGED <<notBuild, land, present, run, phase, files, loopVars>>

\* Lines 259-273, one iteration whose fingerprint throws (decoder failure):
\* fileId++ has been evaluated, the catch logs, nothing else changes.
IndexFileFails ==
    /\ phase = "loop"
    /\ idx <= Len(files)
    /\ fileId' = fileId + 1
    /\ idx' = idx + 1
    /\ UNCHANGED <<notBuild, land, present, run, phase, files, index, meta, disk,
                   retained, calls, loopVars>>

\* Lines 275-279: the final normalization and write.
Finish ==
    /\ phase = "loop"
    /\ idx > Len(files)
    /\ index' = normalizeBuckets(index)
    /\ disk' = writeSplit(normalizeBuckets(index), meta)
    /\ phase' = "done"
    /\ UNCHANGED <<notBuild, land, present, run, files, idx, fileId, meta, retained,
                   calls, loopVars>>

Next == Start \/ IndexFile \/ IndexFileFails \/ Finish

SpecBuild == Init /\ [][Next]_vars

----------------------------------------------------------------------------
(* unnamed/part_006: buildIndex with concurrent worker loops.  A loop      *)
(* suspends at its two awaits (runWorker, writeSplit); everything between  *)
(* two awaits runs without interruption on the main thread.                *)

Max(a, b) == IF a > b THEN a ELSE b

\* Line 220: merge, the same capped push as mergeIndex.
merge(dst, src) == [k \in Keys |-> pushWhile(dst[k], src[k], 1)]

\* Lines 81-88: fingerprintMap, the per-file capped map.
fingerprintMap(hs, id) == fpFrom(hs, id, 1, EmptyIndex)

\* Lines 238-244: the final regrouping per track.
regroup(ix) ==
    [k \in Keys |->
        LET fids == Ascending({ ix[k][i].fid : i \in DOMAIN ix[k] })
        IN  [j \in DOMAIN fids |->
                [fid |-> fids[j], t |-> ArrV(SortTimes(perOf(ix[k], fids[j])))]]]

\* Lines 105-110: writeSplit serializes the document when it is called;
\* below MAX_BYTES the document goes out in one atomicWrite.
stringify(ix, mt) == [index |-> ix, meta |-> mt]

\* Lines 162-221.  loadMetaOnly scans the file for the "meta" token in 64 KiB
\* chunks: when it finds the array (metaOnly) the index of the previous run
\* is not read at all; when the token straddles a chunk boundary it returns
\* null and the whole document is parsed.
Start006 ==
    /\ phase \in {"idle", "done"}
    /\ run < MaxRuns
    /\ run' = run + 1
    /\ \E metaOnly \in (IF disk = <<>> THEN {FALSE} ELSE BOOLEAN) :
         LET prevMeta == IF disk # <<>> THEN disk[1].meta ELSE <<>>
             todo     == NotDone(prevMeta, Dir)
             conc     == Max(1, Min(NLoops, Len(todo)))
         IN  /\ meta' = prevMeta
             /\ index' = IF disk # <<>> /\ ~metaOnly
                         THEN disk[1].index ELSE EmptyIndex
             /\ retained' = IF disk # <<>> /\ ~metaOnly
                            THEN retained ELSE EmptyIndex
             /\ files' = todo
             /\ fileId' = Len(prevMeta)
             /\ pc' = [l \in Writers |->
                        IF l \in 1..conc THEN "take" ELSE "exit"]
    /\ idx' = 1
    /\ phase' = "loop"
    /\ UNCHANGED <<notBuild, land, present, disk, calls, cur, snap>>

\* Lines 224-227: take the next file and a track id, start its worker.
Take(l) ==
    /\ phase = "loop"
    /\ pc[l] = "take"
    /\ idx' = idx + 1
    /\ IF idx > Len(files)
       THEN /\ pc' = [pc EXCEPT ![l] = "exit"]
            /\ UNCHANGED <<notBuild, fileId, cur>>
       ELSE /\ cur' = [cur EXCEPT ![l] = [name |-> files[idx], fid |-> fileId]]
            /\ fileId' = fileId + 1
            /\ pc' = [pc EXCEPT ![l] = "await"]
    /\ UNCHANGED <<notBuild, land, present, run, phase, files, index, meta, disk,
                   retained, calls, snap>>

\* Lines 227-233: the worker's map arrives; merge, record the name, start
\* the checkpoint write.
Resolve(l) ==
    /\ phase = "loop"
    /\ pc[l] = "await"
    /\ LET src == fingerprintMap(land[cur[l].name], cur[l].fid)
       IN  /\ index' = merge(index, src)
           /\ meta' = Append(meta, cur[l].name)
           /\ snap' = [snap EXCEPT
                         ![l] = stringify(merge(index, src),
                                          Append(meta, cur[l].name))]
           /\ retained' = [k \in Keys |->
                             retained[k] \o
                             tagged(pushed(index, src, k), cur[l].name)]
           /\ calls' = [calls EXCEPT ![cur[l].name] = @ + 1]
    /\ pc' = [pc EXCEPT ![l] = "write"]
    /\ UNCHANGED <<notBuild, land, present, run, phase, files, idx, fileId, disk, cur>>

\* Lines 229-233: the worker fails; log, then the checkpoint write.
Reject(l) ==
    /\ phase = "loop"
    /\ pc[l] = "await"
    /\ snap' = [snap EXCEPT ![l] = stringify(index, meta)]
    /\ pc' = [pc EXCEPT ![l] = "write"]
    /\ UNCHANGED <<notBuild, buildVars, cur>>

\* Lines 96-99: the rename of this loop's temporary file onto the output.
Written(l) ==
    /\ phase = "loop"
    /\ pc[l] = "write"
    /\ disk' = <<snap[l]>>
    /\ pc' = [pc EXCEPT ![l] = "take"]
    /\ UNCHANGED <<notBuild, land, present, run, phase, files, idx, fileId, index, meta,
                   retained, calls, cur, snap>>

\* Lines 237-245: all loops returned; regroup and write the final artifact.
Final006 ==
    /\ phase = "loop"
    /\ \A l \in Loops : pc[l] = "exit"
    /\ index' = regroup(index)
    /\ disk' = <<stringify(regroup(index), meta)>>
    /\ phase' = "done"
    /\ UNCHANGED <<notBuild, land, present, run, files, idx, fileId, meta, retained,
                   calls, loopVars>>

NextPar ==
    \/ Start006
    \/ \E l \in Loops : Take(l)
    \/ \E l \in Loops : Resolve(l)
    \/ \E l \in Loops : Reject(l)
    \/ \E l \in Loops : Written(l)
    \/ Final006

SpecPar == Init /\ [][NextPar]_vars

----------------------------------------------------------------------------
(* index.js (second part, lines 334-518): buildIndex with concurrent       *)
(* worker loops that all checkpoint through atomicWrite, which writes the  *)
(* one temporary file "<out>.tmp" and renames it.  fs.writeFile opens the  *)
(* file (creating or truncating it), writes the document chunk by chunk    *)
(* and closes it; each of these, and the rename, is a separate operation   *)
(* of the thread pool, and operations of different writers interleave.     *)

Chunk(doc, j) == [doc |-> doc, part |-> j]
Hole == [doc |-> NoDoc, part |-> 0]

\* write(2) of one chunk at chunk position j; a gap reads as zero bytes.
RECURSIVE PutAt(_, _, _)
PutAt(content, j, c) ==
    IF j <= Len(content) THEN [content EXCEPT ![j] = c]
    ELSE IF j = Len(content) + 1 THEN Append(content, c)
    ELSE PutAt(Append(content, Hole), j, c)

\* Lines 431-438: toMap, the per-file capped map; the track id is the name.
toMap(hs, id) == fpFrom(hs, id, 1, EmptyIndex)

\* Lines 466-472: merge.
mergeCk(dst, src) == [k \in Keys |-> pushWhile(dst[k], src[k], 1)]

\* Lines 459-476: no previous artifact is read; conc worker loops start.
StartCk ==
    /\ phase = "idle"
    /\ run = 0
    /\ run' = 1
    /\ files' = Dir
    /\ index' = EmptyIndex
    /\ meta' = <<>>
    /\ idx' = 1
    /\ pc' = [w \in Writers |->
                IF w = 0 THEN "wait"
                ELSE IF w <= Max(1, Min(NLoops, Len(Dir))) THEN "take"
                ELSE "exit"]
    /\ phase' = "loop"
    /\ UNCHANGED <<notCkpt, land, present, fileId, disk, retained, calls, cur, snap, fsVars>>

\* Lines 479-482: take the next file, start its worker.
TakeCk(l) ==
    /\ phase = "loop"
    /\ l \in Loops
    /\ pc[l] = "take"
    /\ idx' = idx + 1
    /\ IF idx > Len(files)
       THEN /\ pc' = [pc EXCEPT ![l] = "exit"]
            /\ UNCHANGED cur
       ELSE /\ cur' = [cur EXCEPT ![l] = [name |-> files[idx], fid |-> 0]]
            /\ pc' = [pc EXCEPT ![l] = "await"]
    /\ UNCHANGED <<notCkpt, land, present, run, phase, files, fileId, index, meta, disk,
                   retained, calls, snap, fsVars>>

\* Lines 482-487: the map arrives; merge, push the name, then write():
\* JSON.stringify runs at the call, fs.writeFile starts.
ResolveCk(l) ==
    /\ phase = "loop"
    /\ l \in Loops
    /\ pc[l] = "await"
    /\ LET src == toMap(land[cur[l].name], cur[l].name)
       IN  /\ index' = mergeCk(index, src)
           /\ meta' = Append(meta, cur[l].name)
           /\ snap' = [snap EXCEPT
                         ![l] = stringify(mergeCk(index, src),
                                          Append(meta, cur[l].name))]
    /\ pc' = [pc EXCEPT ![l] = "open"]
    /\ UNCHANGED <<notCkpt, land, present, run, phase, files, idx, fileId, disk,
                   retained, calls, cur, fsVars>>

\* Lines 484-487: the worker fails (catch {}), then write().
RejectCk(l) ==
    /\ phase = "loop"
    /\ l \in Loops
    /\ pc[l] = "await"
    /\ snap' = [snap EXCEPT ![l] = stringify(index, meta)]
    /\ pc' = [pc EXCEPT ![l] = "open"]
    /\ UNCHANGED <<notCkpt, buildVars, cur, fsVars>>

\* Lines 491-492: every loop has returned; buildIndex calls write() itself.
FinalCk ==
    /\ phase = "loop"
    /\ pc[0] = "wait"
    /\ \A l \in Loops : pc[l] = "exit"
    /\ snap' = [snap EXCEPT ![0] = stringify(index, meta)]
    /\ pc' = [pc EXCEPT ![0] = "open"]
    /\ UNCHANGED <<notCkpt, buildVars, cur, fsVars>>

\* Line 448, fs.writeFile: open(tmp, 'w') creates the file or truncates the
\* inode the name already refers to.
Open(w) ==
    /\ phase = "loop"
    /\ pc[w] = "open"
    /\ IF tmpPath = 0
       THEN /\ inode' = Append(inode, <<>>)
            /\ tmpPath' = Len(inode) + 1
            /\ fd' = [fd EXCEPT ![w] = Len(inode) + 1]
       ELSE /\ inode' = [inode EXCEPT ![tmpPath] = <<>>]
            /\ fd' = [fd EXCEPT ![w] = tmpPath]
            /\ UNCHANGED tmpPath
    /\ wpos' = [wpos EXCEPT ![w] = 0]
    /\ pc' = [pc EXCEPT ![w] = "write"]
    /\ UNCHANGED <<notCkpt, buildVars, cur, snap, outPath>>

\* Line 448, fs.writeFile: the next chunk goes to the handle's inode.
WriteChunk(w) ==
    /\ phase = "loop"
    /\ pc[w] = "write"
    /\ inode' = [inode EXCEPT
                   ![fd[w]] = PutAt(@, wpos[w] + 1, Chunk(snap[w], wpos[w] + 1))]
    /\ wpos' = [wpos EXCEPT ![w] = @ + 1]
    /\ pc' = [pc EXCEPT ![w] = IF wpos[w] + 1 = NChunks THEN "rename" ELSE "write"]
    /\ UNCHANGED <<notCkpt, buildVars, cur, snap, tmpPath, outPath, fd>>

\* Line 449: rename(tmp, p) makes the output path name the temporary's inode.
Rename(w) ==
    /\ phase = "loop"
    /\ pc[w] = "rename"
    /\ tmpPath # 0
    /\ outPath' = tmpPath
    /\ tmpPath' = 0
    /\ pc' = [pc EXCEPT ![w] = IF w = 0 THEN "exit" ELSE "take"]
    /\ phase' = IF w = 0 THEN "done" ELSE phase
    /\ UNCHANGED <<notCkpt, land, present, run, files, idx, fileId, index, meta, disk,
                   retained, calls, cur, snap, inode, fd, wpos>>

\* Line 449: rename fails with ENOENT when another writer has renamed the
\* temporary away; the rejection is not caught (line 487 is outside the
\* try), buildIndex rejects and the process exits (lines 514-517).
RenameFails(w) ==
    /\ phase = "loop"
    /\ pc[w] = "rename"
    /\ tmpPath = 0
    /\ phase' = "crashed"
    /\ UNCHANGED <<notCkpt, land, present, run, files, idx, fileId, index, meta, disk,
                   retained, calls, loopVars, fsVars>>

NextCkpt ==
    \/ StartCk
    \/ \E l \in Loops : TakeCk(l)
    \/ \E l \in Loops : ResolveCk(l)
    \/ \E l \in Loops : RejectCk(l)
    \/ FinalCk
    \/ \E w \in Writers : Open(w)
    \/ \E w \in Writers : WriteChunk(w)
    \/ \E w \in Writers : Rename(w)
    \/ \E w \in Writers : RenameFails(w)

SpecCkpt == Init /\ [][NextCkpt]_vars

----------------------------------------------------------------------------
(* match.js (lines 1-230): findDuplicates over an index object.  Track ids *)
(* are strings there (String(e[0])), modelled by their decimal digits.     *)

\* Most postings of one index given to the matcher.
MaxPostings == 3
\* Largest frame time of a posting given to the matcher.
MaxPos == 1

\* Track ids of the indexed files; 10 is the first whose string sorts
\* before the string of a smaller id.
Ids == {1, 2, 10}
\* Object.keys order of the index object: the order the keys were inserted.
KeySeq == <<"k1", "k2">>

\* String(n) for a non-negative integer: its decimal digits.
RECURSIVE String(_)
String(n) == IF n < 10 THEN <<n>> ELSE String(n \div 10) \o <<n % 10>>

\* a < b on strings: code units compared left to right, a proper prefix
\* is smaller.
RECURSIVE StrLess(_, _)
StrLess(x, y) ==
    IF y = <<>> THEN FALSE
    ELSE IF x = <<>> THEN TRUE
    ELSE IF Head(x) # Head(y) THEN Head(x) < Head(y)
    ELSE StrLess(Tail(x), Tail(y))

\* Line 17.  The key joins the two ids with PAIR_SEP; splitPairKey
\* (line 18) gives the two ids back, so the key is kept as the pair.
pairKey(a, b) == IF StrLess(a, b) THEN <<a, b>> ELSE <<b, a>>
splitPairKey(pk) == pk

\* Number(v) || 0
NumberOr0(v) == IF ToNumber(v).nan THEN 0 ELSE ToNumber(v).n

\* Lines 38-43: t is the running sum of the list's elements.  (t | 0
\* leaves the small integers of the model as they are.)
RECURSIVE runningSum(_, _, _)
runningSum(v, i, t) ==
    IF i > Len(v) THEN <<>>
    ELSE LET d == NumberOr0(v[i])
             t2 == IF i = 1 THEN d ELSE t + d
         IN  <<t2>> \o runningSum(v, i + 1, t2)

\* Lines 29-49.  Every entry of an index object is an array [fid, v].
expandEntry(e) ==
    IF e.t.arr
    THEN LET ts == runningSum(e.t.items, 1, 0)
         IN  [i \in DOMAIN ts |-> [id |-> String(e.fid), pos |-> ts[i]]]
    ELSE <<[id |-> String(e.fid), pos |-> NumberOr0(e.t)]>>

\* Lines 51-58.
RECURSIVE normalizeBucket(_)
normalizeBucket(b) ==
    IF b = <<>> THEN <<>>
    ELSE expandEntry(Head(b)) \o normalizeBucket(Tail(b))

\* Lines 78-88: keep the first of equal [id, pos], stop at maxBucket.
RECURSIVE dedupeFrom(_, _, _, _)
dedupeFrom(b, i, dst, maxBucket) ==
    IF i <= Len(b) /\ Len(dst) < maxBucket
    THEN dedupeFrom(b, i + 1,
                    IF \E j \in DOMAIN dst : dst[j] = b[i]
                    THEN dst ELSE Append(dst, b[i]),
                    maxBucket)
    ELSE dst

\* Lines 69-90 for one key; a key left out of the result is the empty
\* bucket (a kept bucket has minBucket >= 1 entries).
dedupeBucket(bucketRaw, o) ==
    IF Len(bucketRaw) < o.minBucket \/ Len(bucketRaw) > o.dropAbove
    THEN <<>>
    ELSE LET b == normalizeBucket(bucketRaw)
             dst == dedupeFrom(b, 1, <<>>, o.maxBucket)
         IN  IF Len(b) < o.minBucket THEN <<>>
             ELSE IF Len(dst) >= o.minBucket THEN dst
             ELSE <<>>

\* Lines 61-94.
dedupeIndex(ix, o) == [k \in Keys |-> dedupeBucket(ix[k], o)]

\* Lines 112-120 and 146-164: the posting pairs (aI < bI) of one bucket
\* with different ids, in loop order, each with its pair key and the
\* offset line 161 computes.
RECURSIVE bucketPairs(_, _, _)
bucketPairs(b, aI, bI) ==
    IF aI > Len(b) THEN <<>>
    ELSE IF bI > Len(b) THEN bucketPairs(b, aI + 1, aI + 2)
    ELSE (IF b[aI].id = b[bI].id THEN <<>>
          ELSE <<[pk |-> pairKey(b[aI].id, b[bI].id),
                  off |-> b[aI].pos - b[bI].pos]>>)
         \o bucketPairs(b, aI, bI + 1)

\* The posting pairs of all buckets in Object.keys order.
RECURSIVE allPairs(_, _)
allPairs(ix, i) ==
    IF i > Len(KeySeq) THEN <<>>
    ELSE bucketPairs(ix[KeySeq[i]], 1, 2) \o allPairs(ix, i + 1)

\* The distinct elements of a sequence in order of first occurrence
\* (the iteration order of a Map or Set filled from it).
RECURSIVE firstSeen(_, _)
firstSeen(s, acc) ==
    IF s = <<>> THEN acc
    ELSE firstSeen(Tail(s),
                   IF \E j \in DOMAIN acc : acc[j] = Head(s)
                   THEN acc ELSE Append(acc, Head(s)))

Occurrences(s, x) == Cardinality({ i \in DOMAIN s : s[i] = x })

\* Lines 96-127: pair key -> number of posting pairs.
buildPairCounts(ix) ==
    LET ps == allPairs(ix, 1)
        pks == [i \in DOMAIN ps |-> ps[i].pk]
    IN  [pk \in { pks[i] : i \in DOMAIN pks } |-> Occurrences(pks, pk)]

\* Lines 129-172: per candidate pair, in order of first vote, the offsets
\* with their counts in order of first vote, and the number of votes.
buildOffsetVotes(ix, candidates) ==
    LET ps == SelectSeq(allPairs(ix, 1), LAMBDA p : p.pk \in candidates)
        pks == firstSeen([i \in DOMAIN ps |-> ps[i].pk], <<>>)
        offsOf(pk) ==
            LET mine == SelectSeq(ps, LAMBDA p : p.pk = pk)
            IN  [i \in DOMAIN mine |-> mine[i].off]
    IN  [j \in DOMAIN pks |->
            LET offs == offsOf(pks[j])
                seen == firstSeen(offs, <<>>)
            IN  [pk |-> pks[j],
                 offsets |-> [i \in DOMAIN seen |->
                                [off |-> seen[i],
                                 cnt |-> Occurrences(offs, seen[i])]],
                 totalPairs |-> Len(offs)]]

\* Lines 207-214: the first offset, in Map order, with the largest count.
RECURSIVE bestOf(_, _, _, _)
bestOf(offsets, i, bestOff, bestCnt) ==
    IF i > Len(offsets) THEN [off |-> bestOff, cnt |-> bestCnt]
    ELSE IF offsets[i].cnt > bestCnt
         THEN bestOf(offsets, i + 1, offsets[i].off, offsets[i].cnt)
         ELSE bestOf(offsets, i + 1, bestOff, bestCnt)

RECURSIVE GCD(_, _)
GCD(a, b) == IF b = 0 THEN a ELSE GCD(b, a % b)

\* The quotient n / d of line 216, kept exact as a fraction in lowest terms.
Quotient(n, d) == [num |-> n \div GCD(n, d), den |-> d \div GCD(n, d)]

\* Line 220, for one entry of pairMap.
resultOf(e) ==
    LET best == bestOf(e.offsets, 1, 0, 0)
    IN  [a |-> splitPairKey(e.pk)[1], b |-> splitPairKey(e.pk)[2],
         bestOffset |-> best.off, bestCount |-> best.cnt,
         totalPairs |-> e.totalPairs,
         score |-> Quotient(best.cnt, e.totalPairs)]

\* Lines 224-227: the comparator is positive, x is to come after y.
sortAfter(x, y) ==
    \/ y.bestCount > x.bestCount
    \/ /\ y.bestCount = x.bestCount
       /\ y.score.num * x.score.den > x.score.num * y.score.den

RECURSIVE insertResult(_, _)
insertResult(s, x) ==
    IF s # <<>> /\ sortAfter(s[Len(s)], x)
    THEN Append(insertResult(SubSeq(s, 1, Len(s) - 1), x), s[Len(s)])
    ELSE Append(s, x)

RECURSIVE sortResults(_)
sortResults(s) ==
    IF s = <<>> THEN <<>>
    ELSE insertResult(sortResults(SubSeq(s, 1, Len(s) - 1)), s[Len(s)])

\* Line 189: Math.max(1, Number(minMatches) || DEFAULTS.minMatches).
minM(o) ==
    Max(1, IF o.minMatches = 0 THEN DEFAULTS.minMatches ELSE o.minMatches)

\* Lines 190-191, in hundredths.
ratio(o) ==
    IF o.minRatio <= 0 \/ o.minRatio > 100
    THEN DEFAULTS.minRatio ELSE o.minRatio

\* Lines 174-230.
findDuplicates(ix, o) ==
    LET cl == dedupeIndex(ix, o)
        pairCount == buildPairCounts(cl)
        candidates == { pk \in DOMAIN pairCount : pairCount[pk] >= minM(o) }
        pairMap == buildOffsetVotes(cl, candidates)
        all == [j \in DOMAIN pairMap |-> resultOf(pairMap[j])]
        kept == SelectSeq(all, LAMBDA r :
                    /\ r.bestCount >= minM(o)
                    /\ r.bestCount * 100 >= ratio(o) * r.totalPairs)
    IN  sortResults(kept)

\* The options of a call: thresholds around the counts and scores the
\* bounded indexes produce, filters at the defaults and at 2.
Options ==
    [minMatches : {0, 1, 2}, minRatio : {50, 100, 150},
     maxBucket : {2, DEFAULTS.maxBucket},
     dropAbove : {2, DEFAULTS.dropAbove},
     minBucket : {DEFAULTS.minBucket}]

Posting == [fid : Ids, t : { NumV(n) : n \in 0..MaxPos }]

Before(b, x, y) ==
    \E i, j \in DOMAIN b : i < j /\ b[i].fid = x /\ b[j].fid = y

\* What the builders' merge leaves: it appends one file's postings of a
\* key at a time, files in the order their fingerprints arrive, and a
\* file's postings of a key in anchor-time order.
AsMerged(ix) ==
    /\ \A x, y \in Ids :
          x # y => ~(/\ \E k \in Keys : Before(ix[k], x, y)
                     /\ \E k \in Keys : Before(ix[k], y, x))
    /\ \A k \in Keys : \A i, j \in DOMAIN ix[k] :
          i < j /\ ix[k][i].fid = ix[k][j].fid => ix[k][i].t.n <= ix[k][j].t.n

FlatIndexes ==
    { ix \in UNION { [k1 : [1..p[1] -> Posting], k2 : [1..p[2] -> Posting]] :
                       p \in { q \in (0..MaxPostings) \X (0..MaxPostings) :
                                 q[1] + q[2] <= MaxPostings } } :
        AsMerged(ix) }

InitDup ==
    /\ land = [f \in { Listing[i] : i \in DOMAIN Listing } |-> <<>>]
    /\ present = 0
    /\ run = 0
    /\ disk = <<>>
    /\ retained = EmptyIndex
    /\ calls = [f \in { Listing[i] : i \in DOMAIN Listing } |-> 0]
    /\ LoopsIdle
    /\ FsEmpty
    /\ BuildIdle
    /\ ClipIdle
    /\ OthersIdle
    /\ flat \in FlatIndexes
    /\ indexObj = flat
    /\ shape = "flat"
    /\ NotCalled

\* The indexer's final regrouping (unnamed/part_010 lines 217-233) of the
\* flat index, written as the index the matcher is then run on.
Finalize ==
    /\ shape = "flat"
    /\ ~called
    /\ ~looked
    /\ indexObj' = normalizeBuckets(indexObj)
    /\ shape' = "grouped"
    /\ UNCHANGED <<notDup, flat, called, opts, cleaned,
                   results>>

\* A findDuplicates whose dedupeIndex deleted the stop keys from the index
\* it was given instead of skipping them.
FindDuplicatesInPlace ==
    \E o \in Options :
        /\ ~called
        /\ called' = TRUE
        /\ opts' = o
        /\ cleaned' = dedupeIndex(indexObj, o)
        /\ results' = findDuplicates(indexObj, o)
        /\ indexObj' = [k \in Keys |->
                           IF Len(indexObj[k]) > o.dropAbove
                           THEN <<>> ELSE indexObj[k]]
        /\ UNCHANGED <<notDup, flat, shape>>

\* The call findDuplicates(indexObj, opts); mainCLI (lines 259-267) makes
\* one per run of the matcher.
FindDuplicates ==
    \E o \in Options :
        /\ ~called
        /\ called' = TRUE
        /\ opts' = o
        /\ cleaned' = dedupeIndex(indexObj, o)
        /\ results' = findDuplicates(indexObj, o)
        /\ UNCHANGED <<notDup, flat, indexObj, shape>>

NextDup == Finalize \/ FindDuplicates

SpecDup == InitDup /\ [][NextDup]_vars

----------------------------------------------------------------------------
(* match.js (lines 642-702): clip lookup, matchFileAgainstIndex.  An        *)
(* offset is a JavaScript number that may be NaN (an array minus a number). *)

\* Longest landmark list of a query file.
MaxQuery == 2

NumOff(n) == [kind |-> "number", n |-> n]
NaN == [kind |-> "NaN", n |-> 0]
null == [kind |-> "null", n |-> 0]

\* Line 656: ti - tq, ti being whatever the entry holds as second element.
offsetOf(ti, tq) ==
    IF ToNumber(ti).nan THEN NaN ELSE NumOff(ToNumber(ti).n - tq)

\* Lines 654-663 for one query landmark: one vote per entry of its bucket.
entryVotes(entries, tq) ==
    [i \in DOMAIN entries |->
        [trackId |-> entries[i].fid, offset |-> offsetOf(entries[i].t, tq)]]

\* Lines 651-664: the votes in the order the loops cast them.  Every key
\* of the model has a bucket; an empty bucket and a missing one cast none.
RECURSIVE hashVotes(_, _, _)
hashVotes(queryHashes, indexLookup, i) ==
    IF i > Len(queryHashes) THEN <<>>
    ELSE entryVotes(indexLookup[queryHashes[i].key], queryHashes[i].t)
         \o hashVotes(queryHashes, indexLookup, i + 1)

\* Lines 648-666: per track, in order of first vote, its offsets with
\* their counts in order of first vote (a Map of Maps; NaN is one key).
matchHashesToIndex(queryHashes, indexLookup) ==
    LET vs == hashVotes(queryHashes, indexLookup, 1)
        ids == firstSeen([i \in DOMAIN vs |-> vs[i].trackId], <<>>)
        offsOf(id) ==
            LET mine == SelectSeq(vs, LAMBDA v : v.trackId = id)
            IN  [i \in DOMAIN mine |-> mine[i].offset]
    IN  [j \in DOMAIN ids |->
            LET offs == offsOf(ids[j])
                seen == firstSeen(offs, <<>>)
            IN  [trackId |-> ids[j],
                 offs |-> [i \in DOMAIN seen |->
                             [off |-> seen[i],
                              cnt |-> Occurrences(offs, seen[i])]]]]

\* Line 686: sort((a, b) => b[1] - a[1]), stable, by descending count.
RECURSIVE insertOffset(_, _)
insertOffset(s, x) ==
    IF s # <<>> /\ x.cnt > s[Len(s)].cnt
    THEN Append(insertOffset(SubSeq(s, 1, Len(s) - 1), x), s[Len(s)])
    ELSE Append(s, x)

RECURSIVE sortOffsets(_)
sortOffsets(s) ==
    IF s = <<>> THEN <<>>
    ELSE insertOffset(sortOffsets(SubSeq(s, 1, Len(s) - 1)), s[Len(s)])

\* Line 689: sort((a, b) => b.votes - a.votes), stable.
RECURSIVE insertMatch(_, _)
insertMatch(s, x) ==
    IF s # <<>> /\ x.votes > s[Len(s)].votes
    THEN Append(insertMatch(SubSeq(s, 1, Len(s) - 1), x), s[Len(s)])
    ELSE Append(s, x)

RECURSIVE sortMatches(_)
sortMatches(s) ==
    IF s = <<>> THEN <<>>
    ELSE insertMatch(sortMatches(SubSeq(s, 1, Len(s) - 1)), s[Len(s)])

\* slice(0, n) for n >= 0.
slice0(s, n) == SubSeq(s, 1, Min(n, Len(s)))

\* Line 682: meta[Number(trackId) - 1] || String(trackId); the JavaScript
\* index i is position i + 1 of the sequence.
fileOf(mt, trackId) ==
    IF Len(mt) > 0 /\ (trackId - 1) + 1 \in DOMAIN mt
    THEN mt[(trackId - 1) + 1]
    ELSE ToString(trackId)

\* Line 685: +(bestCount / Math.max(1, queryHashCount)).toFixed(4), kept
\* in ten-thousandths (rounded to the nearest).
matchRatioOf(bestCount, queryHashCount) ==
    (20000 * bestCount + Max(1, queryHashCount))
        \div (2 * Max(1, queryHashCount))

\* Lines 668-691.
summarizeMatches(trackOffsets, queryHashCount, mt) ==
    LET one(e) ==
            LET best == bestOf(e.offs, 1, null, 0)
            IN  [trackId |-> e.trackId,
                 file |-> fileOf(mt, e.trackId),
                 bestOffset |-> best.off,
                 votes |-> best.cnt,
                 matchRatio |-> matchRatioOf(best.cnt, queryHashCount),
                 offsets |-> slice0(sortOffsets(e.offs), 8)]
    IN  sortMatches([j \in DOMAIN trackOffsets |-> one(trackOffsets[j])])

\* Lines 693-702, from the parsed index file and the query's landmarks on.
matchFileAgainstIndex(raw, queryHashes, n) ==
    slice0(summarizeMatches(matchHashesToIndex(queryHashes, raw.index),
                            Len(queryHashes), raw.meta), n)

\* Track ids as the resumable builders assign them: meta.length at the
\* start (0 for the first track), one more for each further file.
TrackIds(mt) == 0..(Len(mt) - 1)

\* What merge leaves for the tracks of ids (see AsMerged).
AsMergedOf(ix, ids) ==
    /\ \A x, y \in ids :
          x # y => ~(/\ \E k \in Keys : Before(ix[k], x, y)
                     /\ \E k \in Keys : Before(ix[k], y, x))
    /\ \A k \in Keys : \A i, j \in DOMAIN ix[k] :
          i < j /\ ix[k][i].fid = ix[k][j].fid => ix[k][i].t.n <= ix[k][j].t.n

\* The flat indexes of at most MaxPostings postings of the tracks of mt.
IndexesOf(mt) ==
    LET P == [fid : TrackIds(mt), t : { NumV(n) : n \in 0..MaxPos }]
    IN  { ix \in UNION { [k1 : [1..p[1] -> P], k2 : [1..p[2] -> P]] :
                           p \in { q \in (0..MaxPostings) \X (0..MaxPostings) :
                                     q[1] + q[2] <= MaxPostings } } :
            AsMergedOf(ix, TrackIds(mt)) }

\* The landmark lists of a query file, in anchor-time order.
QueryHashes ==
    { s \in UNION { [1..n -> [key : Keys, t : 0..MaxPos]] : n \in 0..MaxQuery } :
        \A i \in 1..(Len(s) - 1) : s[i].t <= s[i + 1].t }

\* The topN arguments of the calls (5 is the default).
TopNs == {0, 1, 5}

\* The builders at rest: nothing listed, nothing written.
NoBuild ==
    /\ land = [f \in { Listing[i] : i \in DOMAIN Listing } |-> <<>>]
    /\ present = 0
    /\ run = 0
    /\ disk = <<>>
    /\ retained = EmptyIndex
    /\ calls = [f \in { Listing[i] : i \in DOMAIN Listing } |-> 0]
    /\ LoopsIdle
    /\ FsEmpty
    /\ BuildIdle

InitClip ==
    /\ NoBuild
    /\ NotCalled
    /\ OthersIdle
    /\ rawMeta \in { SubSeq(Listing, 1, n) : n \in 1..Len(Listing) }
    /\ flat \in IndexesOf(rawMeta)
    /\ indexObj = flat
    /\ shape = "flat"
    /\ qHashes \in QueryHashes
    /\ topN = 0
    /\ looked = FALSE
    /\ matches = <<>>

\* One call matchFileAgainstIndex(indexPath, queryFile, n); the CLI
\* (lines 705-722) makes one per run.
MatchFileAgainstIndex ==
    \E n \in TopNs :
        /\ ~looked
        /\ looked' = TRUE
        /\ topN' = n
        /\ matches' = matchFileAgainstIndex(
                          [index |-> indexObj, meta |-> rawMeta], qHashes, n)
        /\ UNCHANGED <<notClip, flat, indexObj, shape, rawMeta, qHashes>>

NextClip == Finalize \/ MatchFileAgainstIndex

SpecClip == InitClip /\ [][NextClip]_vars

----------------------------------------------------------------------------
(* index.js (lines 136-174) and match.js (lines 605-632): makeHashes.  The  *)
(* two differ in their parameters and in the key: the indexer quantizes    *)
(* the bins by FREQ_Q and the frame difference by DT_Q, the clip lookup    *)
(* rounds the bins and keeps the frame difference.  A key is kept as the   *)
(* triple of numbers its string joins with "-".                            *)

\* Most frames of a track.
MaxFrames == 3

\* index.js lines 16-20: TARGET_ZONE (55), MAX_PAIRS (6) and FREQ_Q (10)
\* scaled down, DT_Q as it is.
IndexCfg == [zone |-> 2, pairs |-> 2, fq |-> 2, dtq |-> 3]
\* match.js lines 516-517 and 626: TARGET_ZONE (16) and MAX_PAIRS (2)
\* scaled down; Math.round(f) and dt are a quantization by 1.
ClipCfg == [zone |-> 1, pairs |-> 1, fq |-> 1, dtq |-> 1]

Bins == {0, 1}
\* A frame: its peaks (integer bins, strongest first as the peak picker
\* lists them) and its magnitude per bin.
Frame ==
    [peaks : { p \in UNION { [1..n -> Bins] : n \in 0..2 } :
                 \A i, j \in DOMAIN p : i # j => p[i] # p[j] },
     mags : [Bins -> {0, 1}]]
Tracks == UNION { [1..n -> Frame] : n \in 0..MaxFrames }

\* Math.round(x / q) for x >= 0.
RoundDiv(x, q) == (2 * x + q) \div (2 * q)

\* mags[t][b] || 1e-9, in units of 1e-9 with every positive magnitude a
\* multiple of 1000 units.
magOr(m) == IF m = 0 THEN 1 ELSE 1000 * m

\* Lines 143-153: the candidates of anchor f1 of frame t (a position of
\* fr), for dt, dt + 1, ... while the target frame exists.
RECURSIVE candidatesFrom(_, _, _, _, _)
candidatesFrom(fr, t, f1, dt, cfg) ==
    IF dt > cfg.zone \/ t + dt > Len(fr) THEN <<>>
    ELSE [j \in DOMAIN fr[t + dt].peaks |->
            [f2 |-> fr[t + dt].peaks[j], dt |-> dt,
             mag |-> magOr(fr[t].mags[f1])
                       * magOr(fr[t + dt].mags[fr[t + dt].peaks[j]])]]
         \o candidatesFrom(fr, t, f1, dt + 1, cfg)

\* Line 154: candidates.sort((a, b) => b.mag - a.mag), stable.
RECURSIVE sortCandidates(_)
sortCandidates(s) ==
    IF s = <<>> THEN <<>>
    ELSE LET x == s[Len(s)]
             r == sortCandidates(SubSeq(s, 1, Len(s) - 1))
             n == Cardinality({ i \in DOMAIN r : r[i].mag >= x.mag })
         IN  SubSeq(r, 1, n) \o <<x>> \o SubSeq(r, n + 1, Len(r))

\* Lines 156-160.
keyOf(f1, f2, dt, cfg) ==
    <<RoundDiv(f1, cfg.fq), RoundDiv(f2, cfg.fq), RoundDiv(dt, cfg.dtq)>>

\* anchorHashes with the target's frame time in the key in place of the
\* frame difference.
anchorHashesTargetTime(fr, t, f1, cfg) ==
    LET c == sortCandidates(candidatesFrom(fr, t, f1, 1, cfg))
    IN  [i \in 1..Min(cfg.pairs, Len(c)) |->
            [key |-> keyOf(f1, c[i].f2, t - 1 + c[i].dt, cfg), t |-> t - 1]]

\* Lines 141-163 for one anchor; t is the position of its frame, the
\* frame time is t - 1.
anchorHashes(fr, t, f1, cfg) ==
    LET c == sortCandidates(candidatesFrom(fr, t, f1, 1, cfg))
    IN  [i \in 1..Min(cfg.pairs, Len(c)) |->
            [key |-> keyOf(f1, c[i].f2, c[i].dt, cfg), t |-> t - 1]]

\* Lines 138-164: anchor i of frame t onwards, then the later frames.
RECURSIVE hashesFrom(_, _, _, _)
hashesFrom(fr, t, i, cfg) ==
    IF t > Len(fr) THEN <<>>
    ELSE IF i > Len(fr[t].peaks) THEN hashesFrom(fr, t + 1, 1, cfg)
    ELSE anchorHashes(fr, t, fr[t].peaks[i], cfg)
         \o hashesFrom(fr, t, i + 1, cfg)

\* Lines 136-166.
makeHashes(fr, cfg) == hashesFrom(fr, 1, 1, cfg)

HashKeys == Bins \X Bins \X (0..IndexCfg.zone)

\* Lines 168-174: key -> the [trackId, t] of its landmarks, in order.
mapsFromHashes(hs, trackId) ==
    [k \in HashKeys |->
        LET mine == SelectSeq(hs, LAMBDA h : h.key = k)
        IN  [i \in DOMAIN mine |-> [fid |-> trackId, t |-> NumV(mine[i].t)]]]

\* The clip of a track from frame s on.
clipFrom(fr, s) == SubSeq(fr, s + 1, Len(fr))

InitHash ==
    /\ NoBuild
    /\ NotCalled
    /\ flat = EmptyIndex
    /\ indexObj = [k \in HashKeys |-> <<>>]
    /\ shape = "flat"
    /\ rawMeta = <<>>
    /\ qHashes = <<>>
    /\ topN = 0
    /\ looked = FALSE
    /\ matches = <<>>
    /\ frames \in Tracks
    /\ hstage = "new"
    /\ hashes = <<>>
    /\ start = 0
    /\ clipHashes = <<>>
    /\ ExtIdle

\* The indexer fingerprints the track as track 0 and indexes it.
FingerprintTrack ==
    /\ hstage = "new"
    /\ hstage' = "hashed"
    /\ hashes' = makeHashes(frames, IndexCfg)
    /\ indexObj' = mapsFromHashes(makeHashes(frames, IndexCfg), 0)
    /\ rawMeta' = <<Listing[1]>>
    /\ UNCHANGED <<notHash, flat, shape, qHashes, topN, looked, matches,
                   frames, start, clipHashes>>

\* The indexer's hasher on the clip that starts at frame s.
HashClip ==
    \E s \in 0..MaxFrames :
        /\ hstage = "hashed"
        /\ s <= Len(frames)
        /\ hstage' = "cut"
        /\ start' = s
        /\ clipHashes' = makeHashes(clipFrom(frames, s), IndexCfg)
        /\ UNCHANGED <<notHash, dupVars, clipVars, frames, hashes>>

NextHash == FingerprintTrack \/ HashClip

SpecHash == InitHash /\ [][NextHash]_vars

\* The clip lookup (match.js lines 693-702; topN is the default 5) of the
\* clip of the indexed track that starts at frame s.
LookupClip ==
    \E s \in 0..MaxFrames :
        /\ hstage = "hashed"
        /\ s <= Len(frames)
        /\ hstage' = "matched"
        /\ start' = s
        /\ qHashes' = makeHashes(clipFrom(frames, s), ClipCfg)
        /\ topN' = 5
        /\ looked' = TRUE
        /\ matches' = matchFileAgainstIndex(
                          [index |-> indexObj, meta |-> rawMeta],
                          makeHashes(clipFrom(frames, s), ClipCfg), 5)
        /\ UNCHANGED <<notHash, flat, indexObj, shape, rawMeta, frames,
                       hashes, clipHashes>>

NextSelf == FingerprintTrack \/ LookupClip

SpecSelf == InitHash /\ [][NextSelf]_vars

----------------------------------------------------------------------------
(* Claims about the sequential builder (SpecBuild).                        *)

\* The times stored in a value: one for a number, all leaves of an array.
RECURSIVE StoredTimes(_)
StoredTimes(v) ==
    IF ~v.arr THEN 1
    ELSE SumSeq([i \in DOMAIN v.items |-> StoredTimes(v.items[i])])

PostingsIn(b) == SumSeq([i \in DOMAIN b |-> StoredTimes(b[i].t)])

\* C1 (bucket-cap discipline): every key of every document written to the
\* output file, checkpoint or final artifact, stores at most CFG.bucket
\* postings, counting every stored time.
C1_BucketCapDiscipline ==
    disk # <<>> => \A k \in Keys : PostingsIn(disk[1].index[k]) <= bucket

\* How often time t of track f occurs among flat postings / in a time list.
CountPosting(b, f, t) ==
    Cardinality({ i \in DOMAIN b : b[i].fid = f /\ b[i].t = NumV(t) })
CountTime(items, t) ==
    Cardinality({ i \in DOMAIN items : items[i] = NumV(t) })

\* A finalized bucket: one [track_id, times] group per track that has
\* retained postings under the key, times a flat ascending list of integers
\* holding exactly those postings' times.
FinalizedBucket(b, kept) ==
    /\ \A i, j \in DOMAIN b : b[i].fid = b[j].fid => i = j
    /\ { b[i].fid : i \in DOMAIN b } = { kept[i].fid : i \in DOMAIN kept }
    /\ \A i \in DOMAIN b :
          /\ b[i].t.arr
          /\ \A j \in DOMAIN b[i].t.items : ~b[i].t.items[j].arr
          /\ \A j \in 1..(Len(b[i].t.items) - 1) :
                b[i].t.items[j].n <= b[i].t.items[j + 1].n
          /\ \A t \in 0..MaxTime :
                CountTime(b[i].t.items, t) = CountPosting(kept, b[i].fid, t)

\* C10 (finalized bucket shape): when buildIndex has completed, every bucket
\* of the written index is finalized, however often the per-file
\* normalization ran and also when the run resumed a finalized artifact.
C10_FinalizedShape ==
    phase = "done" =>
        /\ disk # <<>>
        /\ \A k \in Keys : FinalizedBucket(disk[1].index[k], retained[k])

----------------------------------------------------------------------------
(* Claims about the concurrent resumable builder (SpecPar).                *)

\* How often time t is stored in a value / in a bucket, flat or grouped.
RECURSIVE CountLeaf(_, _)
CountLeaf(v, t) ==
    IF ~v.arr THEN (IF v.n = t THEN 1 ELSE 0)
    ELSE SumSeq([i \in DOMAIN v.items |-> CountLeaf(v.items[i], t)])

StoredCount(b, t) == SumSeq([i \in DOMAIN b |-> CountLeaf(b[i].t, t)])

\* How often file f hashes to landmark (k, t).
LandCount(f, k, t) ==
    Cardinality({ i \in DOMAIN land[f] : land[f][i] = [key |-> k, t |-> t] })

\* The postings of key k a single run over the whole listing stores when
\* exactly the files named in mt fingerprint successfully.
SingleRunCount(mt, k, t) ==
    SumSeq([i \in DOMAIN Listing |->
              IF InMeta(mt, Listing[i]) THEN LandCount(Listing[i], k, t) ELSE 0])

SingleRunTotal(mt, k) ==
    SumSeq([t \in 1..(MaxTime + 1) |-> SingleRunCount(mt, k, t - 1)])

\* The final artifact holds, per key below the cap, exactly the postings a
\* single run stores, names no track twice, and no file was fingerprinted
\* twice.
SameAsSingleRun ==
    /\ disk # <<>>
    /\ \A i, j \in DOMAIN meta : meta[i] = meta[j] => i = j
    /\ \A f \in DOMAIN calls : calls[f] <= 1
    /\ \A k \in Keys :
          SingleRunTotal(meta, k) <= bucket =>
             \A t \in 0..MaxTime :
                StoredCount(disk[1].index[k], t) = SingleRunCount(meta, k, t)

\* The single run itself meets that description (a check of the yardstick).
SingleRunYardstick ==
    (run = 1 /\ phase = "done") => SameAsSingleRun

\* C2 (resume idempotence): a first run over a prefix of the listing and a
\* second run over the full listing, started with the first run's output
\* present, end with the meta and the postings per key of a single run: no
\* posting of the first run is lost, no file is fingerprinted twice.
C2_ResumeIdempotence ==
    (run = 2 /\ phase = "done") => SameAsSingleRun

\* C4 (track-id/meta consistency): when buildIndex has completed, every
\* posting (track_id, t) of the index has track_id in 0 .. meta.length-1 and
\* meta[track_id] names the file whose landmarks produced the posting.
C4_TrackIdMeta ==
    phase = "done" =>
        \A k \in Keys : \A i \in DOMAIN retained[k] :
            /\ retained[k][i].fid < Len(meta)
            /\ meta[retained[k][i].fid + 1] = retained[k][i].name

----------------------------------------------------------------------------
(* Claims about the checkpointing builder (SpecCkpt).                      *)

\* The content is one whole document: every chunk of one serialization.
CompleteDocument(content) ==
    /\ Len(content) = NChunks
    /\ \A j \in 1..NChunks :
          content[j].part = j /\ content[j].doc = content[1].doc

IsPrefix(s, t) == Len(s) <= Len(t) /\ SubSeq(t, 1, Len(s)) = s

\* C3 (atomic checkpointing): at every instant the output file is absent or
\* holds one complete document {index, meta} as one write call serialized
\* it, whose meta is a prefix of the processed tracks.
C3_AtomicCheckpoint ==
    outPath # 0 =>
        /\ CompleteDocument(inode[outPath])
        /\ IsPrefix(inode[outPath][1].doc.meta, meta)

----------------------------------------------------------------------------
(* Claims about the duplicate finder (SpecDup).                            *)

\* The co-occurring posting pairs of tracks a and b: a posting of a and a
\* posting of b in the same bucket of ix, as <<key, position, position>>.
CoOccur(ix, a, b) ==
    UNION { { <<k, i, j>> : i \in { i \in DOMAIN ix[k] : ix[k][i].id = a },
                            j \in { j \in DOMAIN ix[k] : ix[k][j].id = b } } :
            k \in Keys }

\* time(a) - time(b) of a co-occurring posting pair.
TimeDiff(ix, p) == ix[p[1]][p[2]].pos - ix[p[1]][p[3]].pos

\* The offset histogram of the ordered pair (a, b).
Histogram(ix, a, b, d) ==
    Cardinality({ p \in CoOccur(ix, a, b) : TimeDiff(ix, p) = d })

IsMode(ix, a, b, d) ==
    /\ Histogram(ix, a, b, d) > 0
    /\ \A p \in CoOccur(ix, a, b) :
          Histogram(ix, a, b, TimeDiff(ix, p)) <= Histogram(ix, a, b, d)

\* The histogram's maximum count (0 when the tracks never co-occur).
MaxCount(ix, a, b) ==
    IF CoOccur(ix, a, b) = {} THEN 0
    ELSE LET p == CHOOSE p \in CoOccur(ix, a, b) :
                      IsMode(ix, a, b, TimeDiff(ix, p))
         IN  Histogram(ix, a, b, TimeDiff(ix, p))

ResultsFor(a, b) ==
    { i \in DOMAIN results : results[i].a = a /\ results[i].b = b }

\* C5: findDuplicates emits each unordered pair of distinct tracks at most
\* once, with a before b, and the reported bestOffset is the mode of
\* time(a) - time(b) over the two tracks' co-occurring postings, whichever
\* of the two comes first inside the buckets.
C5_SymmetricDuplicates ==
    called =>
        /\ \A i \in DOMAIN results : StrLess(results[i].a, results[i].b)
        /\ \A i, j \in DOMAIN results :
              i # j => {results[i].a, results[i].b}
                         # {results[j].a, results[j].b}
        /\ \A i \in DOMAIN results :
              IsMode(cleaned, results[i].a, results[i].b,
                     results[i].bestOffset)

\* The second call's options differ from the first's only in a larger
\* minMatches or minRatio.
Raised(o1, o2) ==
    /\ o2.maxBucket = o1.maxBucket
    /\ o2.dropAbove = o1.dropAbove
    /\ o2.minBucket = o1.minBucket
    /\ o2.minMatches >= o1.minMatches
    /\ o2.minRatio >= o1.minRatio
    /\ o2 # o1

PairsOf(rs) == { <<rs[i].a, rs[i].b>> : i \in DOMAIN rs }

\* C6: for the index of the call made and every second call on it whose
\* options differ only in a larger minMatches or minRatio, the pairs the
\* second call returns are among the pairs the first returned.
C6_ThresholdMonotonicity ==
    called =>
        \A o \in Options :
            Raised(opts, o) =>
                PairsOf(findDuplicates(indexObj, o)) \subseteq PairsOf(results)

\* C7: a pair of distinct tracks is returned if and only if the maximum
\* count of its offset histogram over the filtered buckets reaches the
\* minMatches in force and that count over the number of co-occurring
\* posting pairs reaches the minRatio in force; the returned bestCount is
\* that maximum, bestOffset attains it, totalPairs is the histogram's sum
\* and the pass-1 count, and 0 < score <= 1.
C7_ScoringRule ==
    called =>
        \A x, y \in Ids :
            LET a == String(x)
                b == String(y)
                best == MaxCount(cleaned, a, b)
                total == Cardinality(CoOccur(cleaned, a, b))
            IN  StrLess(a, b) =>
                  /\ (ResultsFor(a, b) # {}) <=>
                        (/\ best >= minM(opts)
                         /\ best * 100 >= ratio(opts) * total)
                  /\ \A i \in ResultsFor(a, b) :
                        /\ results[i].bestCount = best
                        /\ Histogram(cleaned, a, b, results[i].bestOffset)
                             = best
                        /\ results[i].totalPairs = total
                        /\ results[i].totalPairs
                             = buildPairCounts(cleaned)[<<a, b>>]
                        /\ results[i].score.num > 0
                        /\ results[i].score.num <= results[i].score.den

\* C8: a key whose stored bucket holds more than dropAbove postings is
\* left out of the filtered index, whether the bucket is stored flat or
\* as per-track time lists; a bucket that is kept has no two equal
\* (id, time) entries, at most maxBucket and at least minBucket entries.
C8_StopKeyFilter ==
    called =>
        \A k \in Keys :
            /\ PostingsIn(indexObj[k]) > opts.dropAbove => cleaned[k] = <<>>
            /\ cleaned[k] # <<>> =>
                  /\ \A i, j \in DOMAIN cleaned[k] :
                        i # j => cleaned[k][i] # cleaned[k][j]
                  /\ Len(cleaned[k]) <= opts.maxBucket
                  /\ Len(cleaned[k]) >= opts.minBucket

SameBag(s, t) ==
    /\ Len(s) = Len(t)
    /\ \A i \in DOMAIN s : Occurrences(s, s[i]) = Occurrences(t, s[i])

\* C9: the matcher's normalizeBucket of a bucket the indexer has
\* regrouped gives the same multiset of (track id, time) postings as the
\* bucket of flat postings it was regrouped from.
C9_FinalizeRoundTrip ==
    shape = "grouped" =>
        \A k \in Keys :
            SameBag(normalizeBucket(indexObj[k]), normalizeBucket(flat[k]))

----------------------------------------------------------------------------
(* Claims about the clip lookup (SpecClip).                                *)

\* The (query landmark, posting) pairs of one track with equal key, as
\* <<query position, posting position>>, over the postings merged.
KeyHits(id) ==
    { h \in (DOMAIN qHashes) \X (1..MaxPostings) :
        /\ h[2] \in DOMAIN flat[qHashes[h[1]].key]
        /\ flat[qHashes[h[1]].key][h[2]].fid = id }

\* t_track - t_clip of such a pair.
HitOffset(h) == flat[qHashes[h[1]].key][h[2]].t.n - qHashes[h[1]].t

VotesAt(id, d) == Cardinality({ h \in KeyHits(id) : HitOffset(h) = d })

\* d gathers the most (query landmark, posting) pairs of the track.
BestAt(id, d) ==
    /\ VotesAt(id, d) > 0
    /\ \A h \in KeyHits(id) : VotesAt(id, HitOffset(h)) <= VotesAt(id, d)

\* C11: matchFileAgainstIndex reports each matched track at most once; a
\* track's votes is the largest number of (query landmark, posting) pairs
\* with equal key at one offset t_track - t_clip, bestOffset is such an
\* offset, the matches are in descending order of votes and at most topN,
\* for buckets stored flat and for buckets stored as per-track time lists.
C11_ClipLookup ==
    looked =>
        /\ \A i, j \in DOMAIN matches :
              i # j => matches[i].trackId # matches[j].trackId
        /\ \A i \in DOMAIN matches :
              /\ matches[i].bestOffset.kind = "number"
              /\ BestAt(matches[i].trackId, matches[i].bestOffset.n)
              /\ matches[i].votes
                   = VotesAt(matches[i].trackId, matches[i].bestOffset.n)
        /\ \A i \in 1..(Len(matches) - 1) :
              matches[i].votes >= matches[i + 1].votes
        /\ Len(matches) <= topN

\* C12: the file name reported for track id i is meta[i], the name the
\* indexer recorded for that id (ids start at 0; meta[i] is position
\* i + 1 of the sequence).
C12_NameResolution ==
    looked =>
        \A i \in DOMAIN matches :
            /\ matches[i].trackId + 1 \in DOMAIN rawMeta
            /\ matches[i].file = rawMeta[matches[i].trackId + 1]

----------------------------------------------------------------------------
(* Claims about the landmark hasher (SpecHash) and the lookup of a clip of *)
(* an indexed track (SpecSelf).                                            *)

\* The landmarks of the whole track anchored at frame s or later, with
\* their anchor times reduced by s.
ShiftedFrom(hs, s) ==
    LET kept == SelectSeq(hs, LAMBDA h : h.t >= s)
    IN  [i \in DOMAIN kept |-> [key |-> kept[i].key, t |-> kept[i].t - s]]

\* The key of landmark h is made of a peak bin of its anchor frame, a peak
\* bin of a later frame and the difference of the two frame times only.
KeyOfBinsAndDifference(h) ==
    \E dt \in 1..IndexCfg.zone :
        /\ h.t + 1 + dt \in DOMAIN frames
        /\ \E i \in DOMAIN frames[h.t + 1].peaks :
           \E j \in DOMAIN frames[h.t + 1 + dt].peaks :
              h.key = keyOf(frames[h.t + 1].peaks[i],
                            frames[h.t + 1 + dt].peaks[j], dt, IndexCfg)

\* C13: the landmarks the hasher makes of a track without its first k
\* frames are, as a multiset, the landmarks it makes of the whole track
\* with anchor time >= k, their anchor times reduced by k; a key depends
\* only on the two peak bins and the frame difference.
C13_TranslationInvariance ==
    hstage = "cut" =>
        /\ SameBag(clipHashes, ShiftedFrom(hashes, start))
        /\ \A i \in DOMAIN hashes : KeyOfBinsAndDifference(hashes[i])

\* A clip that starts after frame 0, has landmarks and lacks some of the
\* track's.
C13_Witness ==
    /\ hstage = "cut"
    /\ start > 0
    /\ clipHashes # <<>>
    /\ Len(clipHashes) < Len(hashes)

\* C14: the lookup of a clip of the indexed track that starts at frame s
\* (and has landmarks) returns the track as the top match with a
\* bestOffset within one frame of s.
C14_SelfMatchDominance ==
    hstage = "matched" /\ qHashes # <<>> =>
        /\ matches # <<>>
        /\ matches[1].trackId = 0
        /\ matches[1].bestOffset.kind = "number"
        /\ matches[1].bestOffset.n - start \in {-1, 0, 1}
-----------------------------------------------------------------------------
(***************************************************************************)
(* The worker orchestrator (unnamed/part_005, main) and its fingerprint    *)
(* workers (worker.js, the parentPort message handler).                    *)
(***************************************************************************)
NWorkers == 2
\* How many full batches a file's handler posts before its decoder closes.
MaxBatches == 1
Workers == 1..NWorkers
\* The audio files of the music directory, in readdir order.
MusicFiles == <<"a", "b", "c">>

\* SELECT id FROM tracks WHERE name=? (0: no row).
getTrack(t, name) ==
    IF \E i \in DOMAIN t : t[i] = name
    THEN CHOOSE i \in DOMAIN t : t[i] = name
    ELSE 0

\* part_005 lines 95-97: the listed files that have no row in tracks.
toDispatch(t) == SelectSeq(MusicFiles, LAMBDA f : getTrack(t, f) = 0)

\* part_005 lines 98-102: the file messages posted to worker w, round robin
\* over the dispatched files, each carrying the id of its fresh tracks row.
postedTo(t, w) ==
    LET d == toDispatch(t)
        mine == SelectSeq([i \in DOMAIN d |-> i],
                          LAMBDA i : ((i - 1) % NWorkers) + 1 = w)
    IN  [n \in DOMAIN mine |->
            [type |-> "file", id |-> Len(t) + mine[n], name |-> d[mine[n]]]]

alive(w) == wstate[w] \in {"up", "draining"}

\* The builders, the matchers and the hasher at rest.
CoreIdle == NoBuild /\ DupIdle /\ ClipIdle /\ HashIdle

\* The orchestrator before main; tracks may hold the rows of an earlier run.
InitWork ==
    /\ CoreIdle
    /\ tracks \in {<<>>, <<MusicFiles[1]>>}
    /\ fp = {}
    /\ inbox = <<>>
    /\ wstate = <<>>
    /\ inflight = {}
    /\ mpc = "start"
    /\ reported = {}
    /\ processed = {}
    /\ SplitIdle
    /\ PeakIdle
    /\ CallIdle
    /\ StreamIdle
    /\ HotIdle

\* part_005 lines 78-107, which run without yielding: create the workers,
\* insert a tracks row for every new file and post it to a worker, post
\* drain to every worker, then wait for every worker's exit event.
Main ==
    /\ mpc = "start"
    /\ tracks' = tracks \o toDispatch(tracks)
    /\ inbox' = [w \in Workers |->
                    postedTo(tracks, w) \o <<[type |-> "drain"]>>]
    /\ wstate' = [w \in Workers |-> "up"]
    /\ mpc' = "await"
    /\ UNCHANGED <<notWork, fp, inflight, reported, processed>>

\* worker.js lines 114-121: the handler takes the next message. A drain
\* message arms the exit timer; a file message starts decoding, and the
\* handler awaits the decoder while later messages are taken.
Receive(w) ==
    /\ mpc = "await"
    /\ alive(w)
    /\ inbox[w] # <<>>
    /\ inbox' = [inbox EXCEPT ![w] = Tail(@)]
    /\ LET m == Head(inbox[w])
       IN  IF m.type = "drain"
           THEN /\ wstate' = [wstate EXCEPT ![w] = "draining"]
                /\ UNCHANGED inflight
           ELSE /\ inflight' = inflight \cup
                        {[w |-> w, id |-> m.id, name |-> m.name, sent |-> 0]}
                /\ UNCHANGED wstate
    /\ UNCHANGED <<notWork, tracks, fp, mpc, reported, processed>>

\* worker.js lines 138-142 and part_005 lines 81-82: while the decoder
\* delivers frames the batch fills up, is posted, and the orchestrator
\* inserts its rows.
Batch(w) ==
    \E j \in inflight :
        /\ j.w = w
        /\ alive(w)
        /\ j.sent < MaxBatches
        /\ fp' = fp \cup {<<j.id, j.sent + 1>>}
        /\ inflight' = (inflight \ {j}) \cup {[j EXCEPT !.sent = @ + 1]}
        /\ UNCHANGED <<notWork, tracks, inbox, wstate, mpc, reported,
                       processed>>

\* worker.js lines 170-172: the decoder closed with code 0; the rest of the
\* batch (if any) is posted and inserted, then done is posted.
Done(w) ==
    \E j \in inflight, rest \in BOOLEAN :
        /\ j.w = w
        /\ alive(w)
        /\ fp' = IF rest THEN fp \cup {<<j.id, j.sent + 1>>} ELSE fp
        /\ inflight' = inflight \ {j}
        /\ processed' = processed \cup {j.name}
        /\ UNCHANGED <<notWork, tracks, inbox, wstate, mpc, reported>>

\* worker.js lines 111 and 173-175: the decoder failed; the handler logs
\* ERROR with the file's name and posts nothing else.
DecodeFails(w) ==
    \E j \in inflight :
        /\ j.w = w
        /\ alive(w)
        /\ inflight' = inflight \ {j}
        /\ reported' = reported \cup {j.name}
        /\ UNCHANGED <<notWork, tracks, fp, inbox, wstate, mpc, processed>>

\* worker.js line 115: 200 ms after drain was taken the worker exits with
\* code 0, whatever its handlers are awaiting.
ExitTimer(w) ==
    /\ mpc = "await"
    /\ wstate[w] = "draining"
    /\ wstate' = [wstate EXCEPT ![w] = "exited"]
    /\ UNCHANGED <<notWork, tracks, fp, inbox, inflight, mpc, reported,
                   processed>>

\* part_005 lines 89-90: the worker terminates abnormally; the orchestrator
\* logs the error or the exit code.
WorkerLost(w) ==
    /\ mpc = "await"
    /\ alive(w)
    /\ wstate' = [wstate EXCEPT ![w] = "lost"]
    /\ UNCHANGED <<notWork, tracks, fp, inbox, inflight, mpc, reported,
                   processed>>

\* part_005 lines 107-111: every worker has exited; the run completes.
Complete ==
    /\ mpc = "await"
    /\ \A w \in Workers : ~alive(w)
    /\ mpc' = "done"
    /\ UNCHANGED <<notWork, tracks, fp, inbox, wstate, inflight, reported,
                   processed>>

NextWork ==
    \/ Main
    \/ \E w \in Workers :
          \/ Receive(w)
          \/ Batch(w)
          \/ Done(w)
          \/ DecodeFails(w)
          \/ ExitTimer(w)
          \/ WorkerLost(w)
    \/ Complete

SpecWork == InitWork /\ [][NextWork]_vars

-----------------------------------------------------------------------------
(***************************************************************************)
(* Claims about the worker orchestrator (SpecWork).                        *)
(***************************************************************************)
\* The message of file f that is still queued at, or awaited by, worker w.
PendingOn(w) ==
    { inbox[w][i].name : i \in { n \in DOMAIN inbox[w] :
                                    inbox[w][n].type = "file" } }
    \cup { j.name : j \in { x \in inflight : x.w = w } }

\* C15: a file whose decoding or fingerprinting failed is logged, has no
\* row in the tracks table and no rows in the fp table.
C15_FailureIsolation ==
    \A f \in reported :
        /\ getTrack(tracks, f) = 0
        /\ \A r \in fp : tracks[r[1]] # f

\* C18: when the run has terminated, every file that was pending on a
\* worker that terminated abnormally has been fingerprinted (rescheduled
\* on a surviving worker) or reported as failed.
C18_WorkerLoss ==
    mpc = "done" =>
        \A w \in Workers :
            wstate[w] = "lost" =>
                \A f \in PendingOn(w) : f \in processed \cup reported
-----------------------------------------------------------------------------
(***************************************************************************)
(* The matchers run on one index file (match.js: findDuplicates lines      *)
(* 174-230 with dedupeIndex lines 61-94, and the clip lookup lines         *)
(* 648-702).  The index may hold flat and regrouped entries.               *)
(***************************************************************************)
\* Most entries of an index file given to the matchers.
MaxEntries == 3

\* An entry: [track_id, t], or [track_id, [t0, dt1]] as finalize regroups.
ReadEntry ==
    [fid : {0, 1}, t : {NumV(0), ArrV(<<NumV(0), NumV(1)>>)}]

ReadIndexes ==
    UNION { [k1 : [1..p[1] -> ReadEntry], k2 : [1..p[2] -> ReadEntry]] :
              p \in { q \in (0..MaxEntries) \X (0..MaxEntries) :
                        q[1] + q[2] <= MaxEntries } }

\* The landmark lists of the query files.
ReadQueries ==
    { <<[key |-> "k1", t |-> 0]>>,
      <<[key |-> "k1", t |-> 0], [key |-> "k2", t |-> 1]>> }

InitRead ==
    /\ NoBuild
    /\ NotCalled
    /\ OthersIdle
    /\ rawMeta = Listing
    /\ indexObj \in ReadIndexes
    /\ flat = indexObj
    /\ shape = IF \E k \in Keys : \E i \in DOMAIN indexObj[k] :
                      indexObj[k][i].t.arr
               THEN "grouped" ELSE "flat"
    /\ qHashes \in ReadQueries
    /\ topN = 0
    /\ looked = FALSE
    /\ matches = <<>>

NextRead == FindDuplicates \/ MatchFileAgainstIndex

SpecRead == InitRead /\ [][NextRead]_vars

-----------------------------------------------------------------------------
(***************************************************************************)
(* Claims about the matchers' effect on the index (SpecRead).              *)
(***************************************************************************)
\* C16: a call of findDuplicates (with its bucket normalization, dedupe and
\* capping) or of the clip lookup leaves the index it was given (keys,
\* buckets, postings) and meta as they were, whatever the options.
C16_ReadOnlyMatching ==
    [][(called' # called \/ looked' # looked) =>
           /\ indexObj' = indexObj
           /\ rawMeta' = rawMeta]_vars

\* Both matchers have run on an index from which dedupeIndex dropped or
\* merged postings, and both reported something.
C16_Witness ==
    /\ called
    /\ looked
    /\ results # <<>>
    /\ matches # <<>>
    /\ \E k \in Keys : Len(cleaned[k]) # Len(indexObj[k])
-----------------------------------------------------------------------------
(***************************************************************************)
(* Claims about atomicWrite (SpecCkpt).                                    *)
(***************************************************************************)
\* The writers whose atomicWrite has opened its temporary file and not yet
\* renamed it.
Writing == { w \in Writers : pc[w] \in {"write", "rename"} }

\* C17: every atomicWrite writes to a temporary file of its own (no two
\* writes in progress share one), and a write that failed leaves no
\* temporary file behind.
C17_AtomicWriteDiscipline ==
    /\ \A v, w \in Writing : v # w => fd[v] # fd[w]
    /\ phase = "crashed" => tmpPath = 0
-----------------------------------------------------------------------------
(***************************************************************************)
(* unnamed/part_006: writeSplit (lines 105-146) above MAX_BYTES, called by *)
(* concurrent worker loops (lines 222-237) on the live index and meta.     *)
(* Sizes are counted in postings: an entry {k: bucket} weighs Len(bucket), *)
(* the document skeleton nothing.                                          *)
(***************************************************************************)
MAX_BYTES == 1
\* The file names writeSplit writes: -1 is the output path p itself, n the
\* part p.n.json.
ShardNames == (-1)..(Cardinality(Keys) - 1)

\* Object.keys(obj.index): the keys that have a bucket.
keysOf(ix) == SelectSeq(KeySeq, LAMBDA k : ix[k] # <<>>)

docSize(ix) == SumSeq([i \in DOMAIN KeySeq |-> Len(ix[KeySeq[i]])])

\* JSON.stringify(cur): the part holds the buckets of its keys and the meta
\* list as they are when it is serialized (cur refers to both, lines 117,
\* 129 and 133).
partDoc(name, ks, ix, mt) ==
    [name |-> name,
     index |-> [k \in Keys |->
                   IF \E i \in DOMAIN ks : ks[i] = k THEN ix[k] ELSE <<>>],
     meta |-> mt]

\* Lines 121-136 and 139-145: the loop over the remaining keys td, with the
\* keys ck of size sz in cur, up to the next atomicWrite: what is written
\* there, and cur, curSize and the keys left when the loop resumes.
RECURSIVE scan(_, _, _, _)
scan(td, ck, sz, ix) ==
    IF td = <<>>
    THEN [write |-> ck, last |-> TRUE, cur |-> <<>>, size |-> 0,
          todo |-> <<>>]
    ELSE LET k == Head(td)
             entrySize == Len(ix[k])
         IN  IF sz + entrySize > MAX_BYTES /\ ck # <<>>
             THEN [write |-> ck, last |-> FALSE, cur |-> <<k>>,
                   size |-> entrySize, todo |-> Tail(td)]
             ELSE scan(Tail(td), Append(ck, k), sz + entrySize, ix)

\* Lines 126-127 and 139-144: the name of the file a part goes to.
nameOf(last, part) == IF last /\ part = 0 THEN -1 ELSE part

NoFrame ==
    [keys |-> <<>>, todo |-> <<>>, cur |-> <<>>, size |-> 0, part |-> 0,
     last |-> TRUE, pending |-> partDoc(-1, <<>>, EmptyIndex, <<>>),
     parts |-> <<>>]

\* Lines 105-128: writeSplit(p, {index: ix, meta: mt}) up to its first
\* atomicWrite.
callWriteSplit(ix, mt) ==
    IF docSize(ix) <= MAX_BYTES \/ keysOf(ix) = <<>>
    THEN [NoFrame EXCEPT !.keys = keysOf(ix),
                         !.pending = partDoc(-1, keysOf(ix), ix, mt)]
    ELSE LET r == scan(keysOf(ix), <<>>, 0, ix)
         IN  [keys |-> keysOf(ix), todo |-> r.todo, cur |-> r.cur,
              size |-> r.size, part |-> 0, last |-> r.last,
              pending |-> partDoc(nameOf(r.last, 0), r.write, ix, mt),
              parts |-> <<>>]

\* Lines 129-136: the part's atomicWrite returned; writeSplit goes on to
\* its next atomicWrite, reading the index and meta as they are now.
resumeWriteSplit(f, ix, mt) ==
    LET r == scan(f.todo, f.cur, f.size, ix)
    IN  [f EXCEPT !.todo = r.todo, !.cur = r.cur, !.size = r.size,
                  !.part = f.part + 1, !.last = r.last,
                  !.pending = partDoc(nameOf(r.last, f.part + 1), r.write,
                                      ix, mt),
                  !.parts = Append(f.parts, f.pending)]

InitSplit ==
    /\ InitInputs
    /\ present = Len(Listing)
    /\ LoopsIdle
    /\ FsEmpty
    /\ DupIdle
    /\ ClipIdle
    /\ OthersIdle
    /\ BuildIdle

\* Lines 162-222 on a first run: nothing to resume, the loops start.
StartSplit ==
    /\ phase = "idle"
    /\ run' = run + 1
    /\ files' = Listing
    /\ idx' = 1
    /\ fileId' = 0
    /\ pc' = [l \in Writers |->
                IF l \in 1..Max(1, Min(NLoops, Len(Listing)))
                THEN "take" ELSE "exit"]
    /\ phase' = "loop"
    /\ ws' = [w \in Writers |-> NoFrame]
    /\ shards' = [n \in ShardNames |-> <<>>]
    /\ UNCHANGED <<notSplit, land, present, index, meta, disk, retained,
                   calls, cur, snap>>

\* Lines 227-233: the worker's map arrives; merge, record the name, and
\* call writeSplit, which runs up to its first atomicWrite.
ResolveSplit(l) ==
    /\ phase = "loop"
    /\ pc[l] = "await"
    /\ LET src == fingerprintMap(land[cur[l].name], cur[l].fid)
       IN  /\ index' = merge(index, src)
           /\ meta' = Append(meta, cur[l].name)
           /\ ws' = [ws EXCEPT
                       ![l] = callWriteSplit(merge(index, src),
                                             Append(meta, cur[l].name))]
    /\ pc' = [pc EXCEPT ![l] = "write"]
    /\ UNCHANGED <<notSplit, land, present, run, phase, files, idx, fileId,
                   disk, retained, calls, cur, snap, shards>>

\* Lines 229-233: the worker fails; log, then writeSplit.
RejectSplit(l) ==
    /\ phase = "loop"
    /\ pc[l] = "await"
    /\ ws' = [ws EXCEPT ![l] = callWriteSplit(index, meta)]
    /\ pc' = [pc EXCEPT ![l] = "write"]
    /\ UNCHANGED <<notSplit, buildVars, cur, snap, shards>>

\* Lines 96-99: the atomicWrite in progress renames its file into place;
\* writeSplit returns after its last part, else goes on to the next one.
PartWritten(w) ==
    /\ phase = "loop"
    /\ pc[w] = "write"
    /\ shards' = [shards EXCEPT ![ws[w].pending.name] = <<ws[w].pending>>]
    /\ IF ws[w].last
       THEN /\ ws' = [ws EXCEPT ![w].parts = Append(@, ws[w].pending)]
            /\ pc' = [pc EXCEPT ![w] = IF w = 0 THEN "exit" ELSE "take"]
            /\ phase' = IF w = 0 THEN "done" ELSE phase
       ELSE /\ ws' = [ws EXCEPT ![w] = resumeWriteSplit(ws[w], index, meta)]
            /\ UNCHANGED <<pc, phase>>
    /\ UNCHANGED <<notSplit, land, present, run, files, idx, fileId, index,
                   meta, disk, retained, calls, cur, snap>>

\* Lines 237-245: all loops returned; regroup and call writeSplit.
FinalSplit ==
    /\ phase = "loop"
    /\ \A w \in Writers : pc[w] = "exit"
    /\ index' = regroup(index)
    /\ ws' = [ws EXCEPT ![0] = callWriteSplit(regroup(index), meta)]
    /\ pc' = [pc EXCEPT ![0] = "write"]
    /\ UNCHANGED <<notSplit, land, present, run, phase, files, idx, fileId,
                   meta, disk, retained, calls, cur, snap, shards>>

NextSplit ==
    \/ StartSplit
    \/ \E l \in Loops : Take(l)
    \/ \E l \in Loops : ResolveSplit(l)
    \/ \E l \in Loops : RejectSplit(l)
    \/ \E w \in Writers : PartWritten(w)
    \/ FinalSplit

SpecSplit == InitSplit /\ [][NextSplit]_vars

-----------------------------------------------------------------------------
(***************************************************************************)
(* Claims about the sharded artifact (SpecSplit).                          *)
(***************************************************************************)
\* The parts writer w's writeSplit call has written so far.
PartsOf(w) == ws[w].parts

HasKey(doc, k) == doc.index[k] # <<>>

\* C19: when a writeSplit call wrote numbered parts, all its parts carry
\* the same meta list, no key is in two of them, and once the call has
\* returned every key of the document is in one of them.
C19_ShardConsistency ==
    \A w \in DOMAIN ws :
        LET ps == PartsOf(w)
        IN  (\E i \in DOMAIN ps : ps[i].name >= 0) =>
                /\ \A i, j \in DOMAIN ps : ps[i].meta = ps[j].meta
                /\ \A i, j \in DOMAIN ps : \A k \in Keys :
                      i # j => ~(HasKey(ps[i], k) /\ HasKey(ps[j], k))
                /\ pc[w] # "write" =>
                      \A n \in DOMAIN ws[w].keys :
                          \E i \in DOMAIN ps : HasKey(ps[i], ws[w].keys[n])
-----------------------------------------------------------------------------
(***************************************************************************)
(* worker.js (lines 13-50): makePeaks, the worker's peak picker, on the    *)
(* squared magnitudes of one frame.  Magnitudes are small integers, the    *)
(* noise floor C.min is 1 and the frame has C.win / 2 = 8 bins.            *)
(***************************************************************************)
\* mags.length, C.win / 2.
HalfWin == 8
\* C.min.
PeakMin == 1
\* Largest squared magnitude of a bin.
MaxMag == 2
\* The values of C.top the picker is built with.
Tops == {1, 2}

\* Line 39 read as a > mag[i] or equal.
reaches(a, m) == a >= m

\* Line 39: a > mag[i].
exceeds(a, m) == a > m

\* Line 39: the first slot whose magnitude a exceeds (0: none).
RECURSIVE insertionSlot(_, _, _)
insertionSlot(a, mag, i) ==
    IF i > Len(mag) THEN 0
    ELSE IF exceeds(a, mag[i]) THEN i
    ELSE insertionSlot(a, mag, i + 1)

\* Lines 42-43: shift the slots from ins on down by one, put v at ins.
shiftIn(arr, ins, v) ==
    [i \in DOMAIN arr |->
        IF i < ins THEN arr[i] ELSE IF i = ins THEN v ELSE arr[i - 1]]

\* Lines 33-44: the scan of the bins from k on, mag and bins being the
\* slots filled so far.
RECURSIVE scanBins(_, _, _, _)
scanBins(mags, k, mag, bins) ==
    IF k >= HalfWin - 2 THEN [mag |-> mag, bins |-> bins]
    ELSE LET a == mags[k]
             ins == insertionSlot(a, mag, 1)
         IN  IF a < PeakMin THEN scanBins(mags, k + 1, mag, bins)
             ELSE IF ~(/\ a > mags[k - 1] /\ a > mags[k + 1]
                       /\ a > mags[k - 2] /\ a > mags[k + 2])
             THEN scanBins(mags, k + 1, mag, bins)
             ELSE IF ins = 0 THEN scanBins(mags, k + 1, mag, bins)
             ELSE scanBins(mags, k + 1, shiftIn(mag, ins, a),
                           shiftIn(bins, ins, k))

\* Lines 46-47: the number of leading slots with a positive magnitude.
RECURSIVE countFilled(_, _)
countFilled(mag, n) ==
    IF n < Len(mag) /\ mag[n + 1] > 0 THEN countFilled(mag, n + 1) ELSE n

\* Lines 30-48: peaks(frame) from the magnitudes on; bins and mag start
\* zero-filled.
peaks(mags, top) ==
    LET r == scanBins(mags, 2, [i \in 1..top |-> 0], [i \in 1..top |-> 0])
    IN  [bins |-> r.bins, n |-> countFilled(r.mag, 0)]

InitPeaks ==
    /\ CoreIdle
    /\ WorkIdle
    /\ SplitIdle
    /\ CallIdle
    /\ StreamIdle
    /\ HotIdle
    /\ pframe \in [0..(HalfWin - 1) -> 0..MaxMag]
    /\ ptop \in Tops
    /\ picked = <<>>

\* worker.js line 149: const p = peaks(frame).
PickPeaks ==
    /\ picked = <<>>
    /\ ptop > 0
    /\ picked' = <<peaks(pframe, ptop)>>
    /\ UNCHANGED <<notPeak, pframe, ptop>>

NextPeaks == PickPeaks

SpecPeaks == InitPeaks /\ [][NextPeaks]_vars

-----------------------------------------------------------------------------
(***************************************************************************)
(* Claims about the worker's peak picker (SpecPeaks).                      *)
(***************************************************************************)
\* The candidate bins of a frame: at least C.min and strictly above the two
\* neighbours on each side.
Candidates(m) ==
    { k \in 2..(HalfWin - 3) :
        /\ m[k] >= PeakMin
        /\ m[k] > m[k - 1] /\ m[k] > m[k + 1]
        /\ m[k] > m[k - 2] /\ m[k] > m[k + 2] }

\* Bin j ranks before bin k: stronger, or equally strong and lower.
RanksBefore(m, j, k) == m[j] > m[k] \/ (m[j] = m[k] /\ j < k)

\* C20: the picker returns n = min(top, candidates) bins, the i-th being
\* the candidate that exactly i - 1 candidates rank before (by descending
\* magnitude, the lower bin first among equals).
C20_PeakPicker ==
    picked # <<>> =>
        LET c == Candidates(pframe)
            p == picked[1]
        IN  /\ p.n = Min(ptop, Cardinality(c))
            /\ \A i \in 1..p.n :
                  /\ p.bins[i] \in c
                  /\ Cardinality({ j \in c :
                         RanksBefore(pframe, j, p.bins[i]) }) = i - 1

\* The picker has run on a frame with more candidates than top, two of
\* them equally strong.
C20_Witness ==
    /\ picked # <<>>
    /\ Cardinality(Candidates(pframe)) > ptop
    /\ \E j, k \in Candidates(pframe) : j # k /\ pframe[j] = pframe[k]
-----------------------------------------------------------------------------
(***************************************************************************)
(* The top-K helpers: topK (unnamed/part_010 lines 81-104, the same code   *)
(* in unnamed/part_006 lines 44-55) and topKIndicesFloat32 (index.js lines *)
(* 69-107), on one magnitude row.  Indices count from 0 as in the source;  *)
(* -Infinity is modelled by -1, below every magnitude.                     *)
(***************************************************************************)
RowLen == 4
MaxVal == 3
\* The K the helpers are called with.
Ks == 1..4

Rows == [0..(RowLen - 1) -> 0..MaxVal]

\* part_010 lines 89-91: the first slot holding the smallest value.
RECURSIVE minSlot(_, _, _, _)
minSlot(val, K, j, m) ==
    IF j >= K THEN m
    ELSE minSlot(val, K, j + 1, IF val[j] < val[m] THEN j ELSE m)

\* part_010 lines 93-97: the slots above m take their left neighbour's
\* content, slot m takes x.
shiftFrom(a, m, x) ==
    [k \in DOMAIN a |-> IF k > m THEN a[k - 1] ELSE IF k = m THEN x ELSE a[k]]

\* part_010 lines 85-98: the loop over the row from index i on.
RECURSIVE topKFrom(_, _, _, _, _)
topKFrom(row, K, i, ids, val) ==
    IF i >= RowLen THEN ids
    ELSE LET v == row[i]
             m == minSlot(val, K, 1, 0)
         IN  IF ~(v > 0) THEN topKFrom(row, K, i + 1, ids, val)
             ELSE IF v > val[m]
             THEN topKFrom(row, K, i + 1, shiftFrom(ids, m, i),
                           shiftFrom(val, m, v))
             ELSE topKFrom(row, K, i + 1, ids, val)

\* r.push(x) for every x of the sequence s that is not -1.
pushFound(s) == SelectSeq(s, LAMBDA x : x # -1)

\* part_010 lines 81-104.
topK(row, K) ==
    LET ids == topKFrom(row, K, 0, [j \in 0..(K - 1) |-> -1],
                        [j \in 0..(K - 1) |-> -1])
    IN  pushFound([n \in 1..K |-> ids[n - 1]])

\* index.js lines 94-101 (and 71-76, 81-86 with fewer registers): the three
\* running best from index i on; b holds <<i1, v1, i2, v2, i3, v3>>.
RECURSIVE best3From(_, _, _)
best3From(arr, i, b) ==
    IF i >= RowLen THEN b
    ELSE LET v == arr[i]
         IN  best3From(arr, i + 1,
                 IF v > b[2] THEN <<i, v, b[1], b[2], b[3], b[4]>>
                 ELSE IF v > b[4] THEN <<b[1], b[2], i, v, b[3], b[4]>>
                 ELSE IF v > b[6] THEN <<b[1], b[2], b[3], b[4], i, v>>
                 ELSE b)

\* index.js lines 69-107: k = 1 and k = 2 keep one and two registers, every
\* larger k three.
topKIndicesFloat32(arr, k) ==
    LET b == best3From(arr, 0, <<-1, -1, -1, -1, -1, -1>>)
    IN  IF k <= 0 THEN <<>>
        ELSE IF k = 1 THEN pushFound(<<b[1]>>)
        ELSE IF k = 2 THEN pushFound(<<b[1], b[3]>>)
        ELSE pushFound(<<b[1], b[3], b[5]>>)

InitTopK ==
    /\ CoreIdle
    /\ RestIdle
    /\ arg \in [row : Rows, K : Ks]
    /\ ret = <<>>

\* part_010 line 107: topK(f, CFG.top).
CallTopK ==
    /\ ret = <<>>
    /\ ret' = <<[fn |-> "topK", out |-> topK(arg.row, arg.K)]>>
    /\ UNCHANGED <<notCall, arg>>

\* index.js line 122: topKIndicesFloat32(whitened, TOP_PEAKS).
CallTopKIndices ==
    /\ ret = <<>>
    /\ ret' = <<[fn |-> "topKIndicesFloat32",
                 out |-> topKIndicesFloat32(arg.row, arg.K)]>>
    /\ UNCHANGED <<notCall, arg>>

NextTopK == CallTopK \/ CallTopKIndices

SpecTopK == InitTopK /\ [][NextTopK]_vars

-----------------------------------------------------------------------------
(***************************************************************************)
(* Claims about the top-K helpers (SpecTopK).                              *)
(***************************************************************************)
Positive(row) == { i \in DOMAIN row : row[i] > 0 }

\* out lists, each once, min(K, positives) indices of positive values, and
\* no index left out holds a larger value than one listed.
IsTopK(row, K, out) ==
    LET S == { out[n] : n \in DOMAIN out }
    IN  /\ Cardinality(S) = Len(out)
        /\ S \subseteq Positive(row)
        /\ Len(out) = Min(K, Cardinality(Positive(row)))
        /\ \A i \in Positive(row) \ S : \A j \in S : row[i] <= row[j]

\* C21: the top-K helper returns exactly the indices of the K largest
\* strictly positive values of the row (all of them when there are fewer
\* than K), each index at most once.
C21_TopKSelection ==
    ret # <<>> => IsTopK(arg.row, arg.K, ret[1].out)
-----------------------------------------------------------------------------
(***************************************************************************)
(* worker.js (lines 144-168): the peak ring and the pairing loop of the    *)
(* message handler, on the peak lists the picker returns frame by frame.   *)
(* A hash H(f1, f2, dt) is kept as the three fields it packs.              *)
(***************************************************************************)
\* C.zone, C.fan and C.anchorEvery of the worker's configuration.
WZone == 2
WFan == 1
WAnchorEvery == 2
\* Most frames of a file.
MaxWFrames == 3
WBins == {1, 2}

\* What peaks(frame) returns: n bins, strongest first.
PeakLists ==
    { s \in UNION { [1..n -> WBins] : n \in 0..2 } :
        \A i, j \in DOMAIN s : i # j => s[i] # s[j] }

\* Lines 161-163: the landmarks of one earlier frame (its bins prev, back
\* frames ago) with the first f2n bins of the current frame t.
pairsWith(prev, cbins, f2n, back, t) ==
    [n \in 1..(Len(prev) * f2n) |->
        [f1 |-> prev[((n - 1) \div f2n) + 1],
         f2 |-> cbins[((n - 1) % f2n) + 1],
         dt |-> back,
         t |-> t - back]]

\* Lines 157-164: back = 1 .. zone over the ring, whose slot rp is the
\* current frame's.
RECURSIVE pairsBack(_, _, _, _, _)
pairsBack(ring, rp, cbins, back, t) ==
    IF back > WZone THEN <<>>
    ELSE LET len == Len(ring)
             pos == ((rp - back + len) % len) + 1
             prev == ring[pos]
         IN  (IF Len(prev) = 0 THEN <<>>
              ELSE pairsWith(prev, cbins, Min(WFan, Len(cbins)), back, t))
             \o pairsBack(ring, rp, cbins, back + 1, t)

\* Lines 148-168: the callback for the frames from t on; ring holds the bin
\* lists of the last zone + 1 frames (empty where ringN is 0), rp counts
\* from 0.
RECURSIVE pairFrames(_, _, _, _)
pairFrames(fr, t, ring, rp) ==
    IF t >= Len(fr) THEN <<>>
    ELSE LET p == fr[t + 1]
             ring2 == [ring EXCEPT ![rp + 1] = p]
         IN  (IF Len(p) > 0 /\ t % WAnchorEvery = 0
              THEN pairsBack(ring2, rp, p, 1, t)
              ELSE <<>>)
             \o pairFrames(fr, t + 1, ring2, (rp + 1) % Len(ring))

\* Lines 144-168: all landmarks added for a file.
landmarksOf(fr) == pairFrames(fr, 0, [i \in 1..(WZone + 1) |-> <<>>], 0)

InitPair ==
    /\ CoreIdle
    /\ RestIdle
    /\ arg \in UNION { [1..n -> PeakLists] : n \in 0..MaxWFrames }
    /\ ret = <<>>

\* worker.js lines 148-170: eachFrame has delivered every frame.
PairFile ==
    /\ ret = <<>>
    /\ ret' = <<landmarksOf(arg)>>
    /\ UNCHANGED <<notCall, arg>>

SpecPair == InitPair /\ [][PairFile]_vars

-----------------------------------------------------------------------------
(***************************************************************************)
(* Claims about the worker's landmarks (SpecPair).                         *)
(***************************************************************************)
InList(s, x) == \E i \in DOMAIN s : s[i] = x

\* C22: every landmark comes from an anchor frame t >= 0 with
\* t mod anchor_every = 0 and a target frame t + dt, 1 <= dt <= zone; the
\* anchor bin is a peak of frame t, the target bin one of the fan strongest
\* peaks of frame t + dt, and the stored time is t.
C22_WorkerLandmarks ==
    ret # <<>> =>
        \A n \in DOMAIN ret[1] :
            LET e == ret[1][n]
            IN  /\ e.t >= 0
                /\ e.t % WAnchorEvery = 0
                /\ e.dt >= 1 /\ e.dt <= WZone
                /\ e.t + e.dt < Len(arg)
                /\ InList(arg[e.t + 1], e.f1)
                /\ InList(SubSeq(arg[e.t + e.dt + 1], 1,
                                 Min(WFan, Len(arg[e.t + e.dt + 1]))), e.f2)

(***************************************************************************)
(* Streaming framing: eachFrame of worker.js.  The decoder writes raw      *)
(* samples of bps bytes each to a pipe, and the pipe hands them over in    *)
(* chunks of any length.  The handler gathers the bytes of one hop in      *)
(* hopBuf, stores every full hop twice in a ring of 2 * win samples and,   *)
(* once win samples are in, gives the callback the window that starts at   *)
(* head.  The model keeps the byte arithmetic and scales the sizes:        *)
(* 2 bytes to a sample, a hop of 2 samples, a window of 4.  The q-th byte  *)
(* of the stream is the number q, so a sample is known by its bytes.       *)
(***************************************************************************)
Bps == 2
FWin == 4
FHop == 2
hopBytes == FHop * Bps
MaxStream == 17
MaxChunk == 9

\* What Buffer.allocUnsafe holds before anything is written to it.
Junk == <<"junk">>

\* Sample s of the stream, as its bytes.
sampleAt(s) == [k \in 1..Bps |-> Bps * s + (k - 1)]

\* chunk.copy(hopBuf, hopFill, off, off + take), where byte off of the
\* chunk is byte q of the stream.
chunkCopy(buf, at, q, take) ==
    [i \in DOMAIN buf |->
        IF at <= i /\ i < at + take THEN q + (i - at) ELSE buf[i]]

\* new Float32Array(hopBuf.buffer, hopBuf.byteOffset, hop).
floatView(buf) ==
    [i \in 0..(FHop - 1) |-> [k \in 1..Bps |-> buf[Bps * i + (k - 1)]]]

\* ring.set(v, at).
ringSet(rng, v, at) ==
    [i \in DOMAIN rng |->
        IF at <= i /\ i < at + FHop THEN v[i - at] ELSE rng[i]]

\* A variant of emit that copies the ring from its start.
emitFromStart(rng, hd) == [i \in 0..(FWin - 1) |-> rng[i]]

\* emit: the window of the ring that starts at head.
emitFrame(rng, hd) ==
    LET a == hd
        b == FWin - a
    IN  [i \in 0..(FWin - 1) |-> IF i < b THEN rng[a + i] ELSE rng[i - b]]

\* The "data" handler from offset off of a chunk of len bytes that starts
\* at byte q of the stream.
RECURSIVE onData(_, _, _, _)
onData(e, q, len, off) ==
    IF off >= len THEN e
    ELSE
        LET take == Min(hopBytes - e.hopFill, len - off)
            buf == chunkCopy(e.hopBuf, e.hopFill, q + off, take)
            fill == e.hopFill + take
        IN  IF fill # hopBytes
            THEN onData([e EXCEPT !.hopBuf = buf, !.hopFill = fill],
                        q, len, off + take)
            ELSE
                LET v == floatView(buf)
                    r == ringSet(ringSet(e.ring, v, e.head), v, e.head + FWin)
                    h == (e.head + FHop) % FWin
                    f == Min(FWin, e.filled + FHop)
                    e1 == [e EXCEPT !.hopBuf = buf, !.hopFill = 0,
                                    !.ring = r, !.head = h, !.filled = f]
                IN  IF f = FWin
                    THEN onData([e1 EXCEPT
                                   !.out = Append(e.out,
                                       [t |-> e.t, frame |-> emitFrame(r, h)]),
                                   !.t = e.t + 1],
                                q, len, off + take)
                    ELSE onData(e1, q, len, off + take)

\* The decoder is started on a stream of any length up to MaxStream bytes.
\* res is -1 while the promise is pending and -2 once it is rejected;
\* torn records that some chunk ended inside a sample.
InitFrames ==
    /\ CoreIdle
    /\ WorkIdle
    /\ SplitIdle
    /\ PeakIdle
    /\ CallIdle
    /\ HotIdle
    /\ sbytes \in 0..MaxStream
    /\ ef = [pos |-> 0, hopFill |-> 0, filled |-> 0, head |-> 0, t |-> 0,
             hopBuf |-> [i \in 0..(hopBytes - 1) |-> Junk],
             ring |-> [i \in 0..(2 * FWin - 1) |-> Junk],
             out |-> <<>>, res |-> -1, torn |-> FALSE]

\* The pipe delivers the next chunk.
Data ==
    /\ ef.res = -1
    /\ ef.pos < sbytes
    /\ \E len \in 1..Min(MaxChunk, sbytes - ef.pos) :
          ef' = [onData(ef, ef.pos, len, 0) EXCEPT
                    !.pos = ef.pos + len,
                    !.torn = ef.torn \/ (ef.pos + len) % Bps # 0]
    /\ UNCHANGED <<notStream, sbytes>>

\* The decoder closes with code 0 after its whole output was delivered.
Close ==
    /\ ef.res = -1
    /\ ef.pos = sbytes
    /\ ef' = [ef EXCEPT !.res = ef.t]
    /\ UNCHANGED <<notStream, sbytes>>

\* The decoder closes with another code.
CloseFails ==
    /\ ef.res = -1
    /\ ef' = [ef EXCEPT !.res = -2]
    /\ UNCHANGED <<notStream, sbytes>>

NextFrames == Data \/ Close \/ CloseFails

SpecFrames == InitFrames /\ [][NextFrames]_vars

\* C23: the callback gets the indices 0, 1, 2, ... in order, frame t is
\* samples [t * hop, t * hop + win) of the stream however the stream was
\* cut into chunks, and a stream of N samples gives
\* floor((N - win) / hop) + 1 frames when N >= win and none otherwise.
C23_StreamingFraming ==
    /\ \A k \in 1..Len(ef.out) :
          /\ ef.out[k].t = k - 1
          /\ ef.out[k].frame =
                 [i \in 0..(FWin - 1) |-> sampleAt((k - 1) * FHop + i)]
    /\ ef.res >= 0 =>
          LET N == sbytes \div Bps
          IN  /\ ef.res = Len(ef.out)
              /\ ef.res = IF N >= FWin THEN (N - FWin) \div FHop + 1 ELSE 0

\* C23 witness: a stream that was cut inside a sample has ended after
\* three frames or more.
C23_Witness ==
    /\ ef.res >= 3
    /\ ef.torn

(***************************************************************************)
(* The fingerprint of one file: the batch pipeline of unnamed/part_010     *)
(* and unnamed/part_006 (stftMags, hashes, the per-file capped map) and    *)
(* the streaming hasher of unnamed/part_009 (fingerprintFromSamples).      *)
(* The input is a sample buffer, given by its length and by the magnitude  *)
(* row of each of its full windows; the window and the hop are those of    *)
(* the framing model, rows have RowLen bins.                               *)
(***************************************************************************)
HTop == 2
HFq == 2
HZone == 1
HPairs == 2
HDtq == 2
MaxSamples == 8
HMaxMag == 1

HRows == [0..(RowLen - 1) -> 0..HMaxMag]

\* x | 0 applied to a / b: the quotient truncated towards zero.
truncDiv(a, b) == IF a >= 0 THEN a \div b ELSE -((-a) \div b)

\* part_010 line 59: the length of the array stftMags allocates.
frameCount010(n) == Max(0, truncDiv(n - FWin, FHop)) + 1

\* part_006 line 29: the same with the + 1 inside Math.max.
frameCount006(n) == Max(0, truncDiv(n - FWin, FHop) + 1)

\* part_010 line 66: the number of positions pos = 0, hop, 2 hop, ... with
\* pos + win <= n, which are the elements stftMags fills.
framesIn(n) == IF n < FWin THEN 0 ELSE (n - FWin) \div FHop + 1

\* The sample buffers: a length and the spectrum of each full window.
Buffers ==
    UNION { [n : {N}, spectra : [1..framesIn(N) -> HRows]] :
              N \in 0..MaxSamples }

\* part_010 line 107: the quantized bins of the topK of a row.
quantPeaks(row) ==
    LET r == topK(row, HTop)
    IN  [i \in DOMAIN r |-> RoundDiv(r[i], HFq)]

\* part_010 line 28.
clamp(x, lo, hi) == IF x < lo THEN lo ELSE IF x > hi THEN hi ELSE x

\* v || 1e-9 on a scale of integers: a zero magnitude weighs less than
\* any other.
orTiny(v) == IF v = 0 THEN 1 ELSE 10 * v

\* part_010 lines 124-126.
pairScore(m1, f1q, m2, f2q) ==
    orTiny(m1[clamp(f1q, 0, RowLen - 1)])
        * orTiny(m2[clamp(f2q, 0, RowLen - 1)])

\* part_010 lines 115-117: bestF, bestDt and bestS, -Infinity being -1.
makeBestStruct ==
    [bestF |-> [p \in 1..HPairs |-> -1],
     bestDt |-> [p \in 1..HPairs |-> 0],
     bestS |-> [p \in 1..HPairs |-> -1]]

\* part_010 lines 128-137: the insertion of one candidate.
bestInsert(b, s, f, dt) ==
    LET ps == { p \in 1..HPairs : s > b.bestS[p] }
    IN  IF ps = {} THEN b
        ELSE LET p == CHOOSE q \in ps : \A r \in ps : q <= r
             IN  [bestF |-> shiftFrom(b.bestF, p, f),
                  bestDt |-> shiftFrom(b.bestDt, p, dt),
                  bestS |-> shiftFrom(b.bestS, p, s)]

\* part_010 lines 123-138 (part_009 lines 140-159): the peaks p2 of the
\* target frame from its j-th on.
RECURSIVE scanTargets(_, _, _, _, _, _, _)
scanTargets(b, m1, f1q, m2, p2, dt, j) ==
    IF j > Len(p2) THEN b
    ELSE scanTargets(bestInsert(b, pairScore(m1, f1q, m2, p2[j]), p2[j], dt),
                     m1, f1q, m2, p2, dt, j + 1)

\* part_010 lines 119-139: the target zone of the anchor frame t (0-based)
\* from distance dt on.
RECURSIVE scanZone(_, _, _, _, _, _)
scanZone(b, pk, mags, t, f1q, dt) ==
    IF dt > HZone \/ t + dt >= Len(pk) THEN b
    ELSE scanZone(scanTargets(b, mags[t + 1], f1q, mags[t + dt + 1],
                              pk[t + dt + 1], dt, 1),
                  pk, mags, t, f1q, dt + 1)

\* part_010 lines 141-146 (part_009 lines 94-100): the landmarks of one
\* anchor peak from slot p on; a key is <<f1q, f2q, quantized dt>>.
RECURSIVE emitBest(_, _, _, _)
emitBest(f1q, b, t, p) ==
    IF p > HPairs THEN <<>>
    ELSE (IF b.bestF[p] # -1
          THEN <<[key |-> <<f1q, b.bestF[p], RoundDiv(b.bestDt[p], HDtq)>>,
                  t |-> t]>>
          ELSE <<>>) \o emitBest(f1q, b, t, p + 1)

\* part_010 lines 114-147: the anchor peaks of frame t from the i-th on.
RECURSIVE anchorsFrom(_, _, _, _)
anchorsFrom(pk, mags, t, i) ==
    IF i > Len(pk[t + 1]) THEN <<>>
    ELSE emitBest(pk[t + 1][i],
                  scanZone(makeBestStruct, pk, mags, t, pk[t + 1][i], 1),
                  t, 1)
         \o anchorsFrom(pk, mags, t, i + 1)

\* part_010 lines 110-148: the frames from t on.
RECURSIVE hashesFromFrame(_, _, _)
hashesFromFrame(pk, mags, t) ==
    IF t >= Len(pk) THEN <<>>
    ELSE anchorsFrom(pk, mags, t, 1) \o hashesFromFrame(pk, mags, t + 1)

\* part_010 lines 106-150: hashes of an array of length len whose first
\* Len(mags) elements are filled.  map skips the holes of the array and
\* line 112 reads the length of undefined at the first hole.
batchHashes(len, mags) ==
    IF len > Len(mags) THEN [threw |-> TRUE, out |-> <<>>]
    ELSE [threw |-> FALSE,
          out |-> hashesFromFrame([t \in DOMAIN mags |-> quantPeaks(mags[t])],
                                  mags, 0)]

\* part_010 lines 154-163: the per-file map of a landmark list, each
\* bucket holding the first CFG.bucket postings of its key.
cappedMap(lms, id) ==
    [k \in { lms[i].key : i \in DOMAIN lms } |->
        LET s == SelectSeq(lms, LAMBDA e : e.key = k)
        IN  [i \in 1..Min(bucket, Len(s)) |-> <<id, s[i].t>>]]

\* The batch fingerprint of buffer x whose stftMags array has length len.
batchFingerprint(x, len, id) ==
    LET h == batchHashes(len, x.spectra)
    IN  [frames |-> len, threw |-> h.threw, map |-> cappedMap(h.out, id)]

\* part_010 lines 152-164.
fingerprint010(x, id) == batchFingerprint(x, frameCount010(x.n), id)

\* part_006 lines 90-94.
fingerprint006(x, id) == batchFingerprint(x, frameCount006(x.n), id)

\* part_009 lines 112-120: the frame record of frame t with spectrum m.
newFrame(t, m) ==
    LET p == quantPeaks(m)
    IN  [t |-> t, peaks |-> p, mags |-> m,
         best |-> [f \in { p[i] : i \in DOMAIN p } |-> makeBestStruct]]

\* part_009 lines 90-102: the landmarks of a finished frame from its i-th
\* peak on.
RECURSIVE emitFrameResults(_, _)
emitFrameResults(fr, i) ==
    IF i > Len(fr.peaks) THEN <<>>
    ELSE emitBest(fr.peaks[i], fr.best[fr.peaks[i]], fr.t, 1)
         \o emitFrameResults(fr, i + 1)

\* part_009 lines 136-160: the anchor's peaks from the i-th on are paired
\* with the peaks of the current frame cf.
RECURSIVE updateAnchor(_, _, _, _)
updateAnchor(anchor, cf, dt, i) ==
    IF i > Len(anchor.peaks) THEN anchor
    ELSE LET f1q == anchor.peaks[i]
         IN  updateAnchor(
                 [anchor EXCEPT !.best[f1q] =
                     scanTargets(anchor.best[f1q], anchor.mags, f1q,
                                 cf.mags, cf.peaks, dt, 1)],
                 cf, dt, i + 1)

\* part_009 lines 123-161: the loop over the buffer from its i-th frame on;
\* s holds the buffer and the landmarks emitted so far.
RECURSIVE sweepBuffer(_, _, _)
sweepBuffer(s, cf, i) ==
    IF i > Len(s.buf) THEN s
    ELSE LET anchor == s.buf[i]
             dt == cf.t - anchor.t
         IN  IF dt > HZone
             THEN sweepBuffer(
                      [buf |-> SubSeq(s.buf, 1, i - 1)
                                  \o SubSeq(s.buf, i + 1, Len(s.buf)),
                       out |-> s.out \o emitFrameResults(anchor, 1)],
                      cf, i)
             ELSE sweepBuffer(
                      [s EXCEPT !.buf[i] = updateAnchor(anchor, cf, dt, 1)],
                      cf, i + 1)

\* part_009 lines 167-170 and 174-177: frames leave the front of the
\* buffer while it is longer than keep.
RECURSIVE shiftOut(_, _)
shiftOut(s, keep) ==
    IF Len(s.buf) <= keep THEN s
    ELSE shiftOut([buf |-> Tail(s.buf),
                   out |-> s.out \o emitFrameResults(Head(s.buf), 1)], keep)

\* part_009 lines 104-171: the frames of x from t on.
RECURSIVE streamFrames(_, _, _)
streamFrames(x, t, s) ==
    IF t >= Len(x.spectra) THEN s
    ELSE LET cf == newFrame(t, x.spectra[t + 1])
             s1 == sweepBuffer(s, cf, 1)
         IN  streamFrames(x, t + 1,
                 shiftOut([s1 EXCEPT !.buf = Append(s1.buf, cf)], HZone + 2))

\* part_009 lines 72-180.  outMap takes the landmarks in the order in
\* which they are emitted, under the same cap as the batch map.
fingerprintFromSamples(x, id) ==
    LET s == shiftOut(streamFrames(x, 0, [buf |-> <<>>, out |-> <<>>]), 0)
    IN  [frames |-> Len(x.spectra), threw |-> FALSE,
         map |-> cappedMap(s.out, id)]

InitPrint ==
    /\ CoreIdle
    /\ RestIdle
    /\ arg \in Buffers
    /\ ret = <<>>

\* part_010: fingerprint of a file whose decoded samples are arg.
Fingerprint010 ==
    /\ ret = <<>>
    /\ ret' = <<[fn |-> "part_010", res |-> fingerprint010(arg, 1)]>>
    /\ UNCHANGED <<notCall, arg>>

\* part_006: the same in the parallel builder.
Fingerprint006 ==
    /\ ret = <<>>
    /\ ret' = <<[fn |-> "part_006", res |-> fingerprint006(arg, 1)]>>
    /\ UNCHANGED <<notCall, arg>>

\* part_009: the streaming hasher.
FingerprintStream ==
    /\ ret = <<>>
    /\ ret' = <<[fn |-> "part_009", res |-> fingerprintFromSamples(arg, 1)]>>
    /\ UNCHANGED <<notCall, arg>>

NextPrint == Fingerprint010 \/ Fingerprint006 \/ FingerprintStream

SpecPrint == InitPrint /\ [][NextPrint]_vars

\* C24: a buffer of fewer than win samples gives the batch builders zero
\* frames and an empty map, and fingerprinting raises no error.
C24_ShortInput ==
    (ret # <<>> /\ arg.n < FWin /\ ret[1].fn \in {"part_010", "part_006"}) =>
        /\ ret[1].res.frames = 0
        /\ ~ret[1].res.threw
        /\ DOMAIN ret[1].res.map = {}

\* C29: for every sample buffer the streaming hasher of part_009 gives the
\* same per-key posting lists as the batch pipeline of part_010, which
\* returns normally.
C29_StreamBatchEquivalence ==
    (ret # <<>> /\ ret[1].fn = "part_009") =>
        LET b == fingerprint010(arg, 1)
        IN  /\ ~b.threw
            /\ ret[1].res.map = b.map

\* The index merged from the maps of the files of names, from the i-th on,
\* in the order of names.
RECURSIVE mergedInOrder(_, _, _)
mergedInOrder(names, i, acc) ==
    IF i > Len(names) THEN acc
    ELSE mergedInOrder(names, i + 1,
                       mergeCk(acc, toMap(land[names[i]], names[i])))

\* C25: the index buildIndex of index.js leaves at its final write is
\* fixed by the listing and the per-file maps: meta holds the
\* fingerprinted files in listing order and every capped bucket holds what
\* merging in that order retains, in whatever order the workers completed.
C25_BuildDeterminism ==
    phase = "done" =>
        LET inListing == SelectSeq(files, LAMBDA f : InMeta(meta, f))
        IN  /\ meta = inListing
            /\ index = mergedInOrder(inListing, 1, EmptyIndex)

(***************************************************************************)
(* index.js (first part, lines 203-303): buildIndex with the hot writer.   *)
(* Worker loops share the cursor nextIndex; a loop runs without            *)
(* interruption from one await to the next.  markDirty queues flush as a   *)
(* microtask, which runs when the current loop segment has reached its     *)
(* await and before any I/O completion is handled; the continuation of     *)
(* Promise.all follows in the same way once the last loop has returned.    *)
(* atomicWrite is a writeFile of "<out>.tmp" (open, data) and a rename,    *)
(* each a separate operation of the thread pool.  A payload is known by    *)
(* the number of markDirty calls that preceded its JSON.stringify.         *)
(***************************************************************************)
MaxHotFiles == 3
HotLoops == 2

\* The names a listing is drawn from.
HotListing == <<"a", "b", "c", "d", "e">>

\* A variant of the loop whose skip branch continues without counting.
RECURSIVE workerLoopSkipUncounted(_, _, _)
workerLoopSkipUncounted(s, l, d) ==
    LET i == s.next
    IN  IF i >= Len(hfiles)
        THEN [s EXCEPT !.next = i + 1, !.lpc[l] = "exit"]
        ELSE LET s1 == [s EXCEPT !.next = i + 1,
                                 !.takes[i + 1] = Append(@, l)]
             IN  IF hfiles[i + 1] \in d
                 THEN workerLoopSkipUncounted(s1, l, d)
                 ELSE [s1 EXCEPT !.lpc[l] = "await",
                                 !.lname[l] = hfiles[i + 1]]

\* Lines 267-278: a worker loop from the head of its while, up to its next
\* await or its break; d is the set done.
RECURSIVE workerLoop(_, _, _)
workerLoop(s, l, d) ==
    LET i == s.next
    IN  IF i >= Len(hfiles)
        THEN [s EXCEPT !.next = i + 1, !.lpc[l] = "exit"]
        ELSE LET s1 == [s EXCEPT !.next = i + 1,
                                 !.takes[i + 1] = Append(@, l)]
             IN  IF hfiles[i + 1] \in d
                 THEN workerLoop([s1 EXCEPT !.processed = @ + 1], l, d)
                 ELSE [s1 EXCEPT !.lpc[l] = "await",
                                 !.lname[l] = hfiles[i + 1]]

\* Line 296: the loops are started one after the other, each running to
\* its first await.
RECURSIVE startLoops(_, _, _)
startLoops(s, l, d) ==
    IF l > HotLoops THEN s
    ELSE startLoops(workerLoop(s, l, d), l + 1, d)

\* Lines 205-206 and 221: an atomicWrite call at its start.
writeOp(who, mk, ch) ==
    [who |-> who, stage |-> "open", marks |-> mk, chained |-> ch]

\* Lines 213-220: flush up to its await, on the writer's flags and the
\* writes in progress.
flushCall(pend, wri, ops, mk, ch) ==
    IF wri \/ ~pend
    THEN [pending |-> pend, writing |-> wri, wops |-> ops]
    ELSE [pending |-> FALSE, writing |-> TRUE,
          wops |-> Append(ops, writeOp("hot", mk, ch))]

\* A variant of flush's finally block that only clears writing.
finallyNoFlush(pend, ops, mk) ==
    [pending |-> pend, writing |-> FALSE, wops |-> ops]

\* Lines 222-225: the finally block of flush once its write has settled.
flushFinally(pend, ops, mk) == flushCall(pend, FALSE, ops, mk, TRUE)

\* Lines 296-301: once every loop has returned, buildIndex calls
\* hot.flush(), which returns at once when a write is in flight or nothing
\* is pending, and then starts the final atomicWrite.
joinLoops(lp, w, mk) ==
    IF \E l \in DOMAIN lp : lp[l] # "exit" THEN w @@ [hpc |-> "loops"]
    ELSE IF w.writing \/ ~w.pending
    THEN [w EXCEPT !.wops = Append(@, writeOp("final", mk, FALSE))]
             @@ [hpc |-> "final"]
    ELSE flushCall(w.pending, w.writing, w.wops, mk, FALSE)
             @@ [hpc |-> "flush"]

\* The sequence ops without its i-th element.
without(ops, i) == SubSeq(ops, 1, i - 1) \o SubSeq(ops, i + 1, Len(ops))

InitHot ==
    /\ CoreIdle
    /\ WorkIdle
    /\ SplitIdle
    /\ PeakIdle
    /\ CallIdle
    /\ StreamIdle
    /\ \E n \in 0..MaxHotFiles : hfiles = SubSeq(HotListing, 1, n)
    /\ hprev \in {<<>>, <<"a">>, <<"b">>}
    /\ hpc = "idle"
    /\ hmeta = <<>>
    /\ hdone = {}
    /\ nextIndex = 0
    /\ nprocessed = 0
    /\ lpc = [l \in 1..HotLoops |-> "new"]
    /\ lname = [l \in 1..HotLoops |-> ""]
    /\ takes = <<>>
    /\ pending = FALSE
    /\ writing = FALSE
    /\ marks = 0
    /\ wops = <<>>
    /\ tmpFile = FALSE
    /\ saved = <<>>
    /\ failed = FALSE

\* Lines 235-301: buildIndex reads the previous meta, starts the loops and,
\* when none of them has a file to wait for, goes on to the final write.
StartHot ==
    /\ hpc = "idle"
    /\ LET d == { hprev[i] : i \in DOMAIN hprev }
           r == startLoops([next |-> 0, processed |-> 0,
                            takes |-> [i \in DOMAIN hfiles |-> <<>>],
                            lpc |-> lpc, lname |-> lname], 1, d)
           j == joinLoops(r.lpc,
                          [pending |-> pending, writing |-> writing,
                           wops |-> wops], marks)
       IN  /\ hmeta' = hprev
           /\ hdone' = d
           /\ nextIndex' = r.next
           /\ nprocessed' = r.processed
           /\ takes' = r.takes
           /\ lpc' = r.lpc
           /\ lname' = r.lname
           /\ hpc' = j.hpc
           /\ pending' = j.pending
           /\ writing' = j.writing
           /\ wops' = j.wops
    /\ UNCHANGED <<notHot, hfiles, hprev, marks, tmpFile, saved, failed>>

\* Lines 280-292: the fingerprint of loop l's file arrives; merge, push,
\* markDirty, count, and on to the next file.  The queued flush runs when
\* the loop has reached its next await.
ResolveHot(l) ==
    /\ hpc = "loops"
    /\ lpc[l] = "await"
    /\ LET d == hdone \cup {lname[l]}
           r == workerLoop([next |-> nextIndex, processed |-> nprocessed + 1,
                            takes |-> takes, lpc |-> lpc, lname |-> lname],
                           l, d)
           f == flushCall(TRUE, writing, wops, marks + 1, FALSE)
           j == joinLoops(r.lpc, f, marks + 1)
       IN  /\ hmeta' = Append(hmeta, lname[l])
           /\ hdone' = d
           /\ marks' = marks + 1
           /\ nextIndex' = r.next
           /\ nprocessed' = r.processed
           /\ takes' = r.takes
           /\ lpc' = r.lpc
           /\ lname' = r.lname
           /\ hpc' = j.hpc
           /\ pending' = j.pending
           /\ writing' = j.writing
           /\ wops' = j.wops
    /\ UNCHANGED <<notHot, hfiles, hprev, tmpFile, saved, failed>>

\* Lines 287-292: the worker of loop l's file fails; log, count, next file.
RejectHot(l) ==
    /\ hpc = "loops"
    /\ lpc[l] = "await"
    /\ LET r == workerLoop([next |-> nextIndex, processed |-> nprocessed + 1,
                            takes |-> takes, lpc |-> lpc, lname |-> lname],
                           l, hdone)
           j == joinLoops(r.lpc,
                          [pending |-> pending, writing |-> writing,
                           wops |-> wops], marks)
       IN  /\ nextIndex' = r.next
           /\ nprocessed' = r.processed
           /\ takes' = r.takes
           /\ lpc' = r.lpc
           /\ lname' = r.lname
           /\ hpc' = j.hpc
           /\ pending' = j.pending
           /\ writing' = j.writing
           /\ wops' = j.wops
    /\ UNCHANGED <<notHot, hfiles, hprev, hmeta, hdone, marks, tmpFile, saved,
                   failed>>

\* The process runs: buildIndex is under way, or has returned with writes
\* of the hot writer still to finish.
HotRunning == hpc \in {"loops", "flush", "final", "returned"}

\* Line 205, fs.writeFile: open(tmp, 'w') creates or truncates the file.
OpenTmp(i) ==
    /\ HotRunning
    /\ i \in DOMAIN wops
    /\ wops[i].stage = "open"
    /\ tmpFile' = TRUE
    /\ wops' = [wops EXCEPT ![i].stage = "data"]
    /\ UNCHANGED <<notHot, hfiles, hprev, hpc, hmeta, hdone, nextIndex,
                   nprocessed, lpc, lname, takes, pending, writing, marks,
                   saved, failed>>

\* Line 205, fs.writeFile: the data is written and the handle closed.
WriteTmp(i) ==
    /\ HotRunning
    /\ i \in DOMAIN wops
    /\ wops[i].stage = "data"
    /\ wops' = [wops EXCEPT ![i].stage = "rename"]
    /\ UNCHANGED <<notHot, hfiles, hprev, hpc, hmeta, hdone, nextIndex,
                   nprocessed, lpc, lname, takes, pending, writing, marks,
                   tmpFile, saved, failed>>

\* The i-th write settles, with an error or not.  A write of the hot
\* writer runs flush's finally block (lines 222-225); a rejection of flush
\* is handled by nobody when flush ran as a microtask and by the caller of
\* buildIndex otherwise, and ends the process either way once the chain of
\* flushes is over.  The final write settles buildIndex (lines 301-302,
\* 320-325).
settle(i, err) ==
    LET rest == without(wops, i)
    IN  IF wops[i].who = "final"
        THEN /\ hpc' = IF err THEN "crashed" ELSE "returned"
             /\ wops' = rest
             /\ UNCHANGED <<pending, writing, saved>>
        ELSE LET f == flushFinally(pending, rest, marks)
                 over == ~f.writing
                 bad == err \/ failed
             IN  /\ pending' = f.pending
                 /\ writing' = f.writing
                 /\ saved' = IF err THEN saved ELSE Append(saved, wops[i])
                 /\ IF over /\ bad
                    THEN /\ hpc' = "crashed"
                         /\ wops' = f.wops
                    ELSE IF over /\ hpc = "flush"
                    THEN /\ hpc' = "final"
                         /\ wops' = Append(f.wops,
                                           writeOp("final", marks, FALSE))
                    ELSE /\ hpc' = hpc
                         /\ wops' = f.wops

\* Line 206: rename(tmp, out) moves the temporary file onto the output.
RenameTmp(i) ==
    /\ HotRunning
    /\ i \in DOMAIN wops
    /\ wops[i].stage = "rename"
    /\ tmpFile
    /\ tmpFile' = FALSE
    /\ settle(i, FALSE)
    /\ UNCHANGED <<notHot, hfiles, hprev, hmeta, hdone, nextIndex, nprocessed,
                   lpc, lname, takes, marks, failed>>

\* Line 206: rename fails with ENOENT, another write having renamed the
\* temporary file away.
RenameTmpFails(i) ==
    /\ HotRunning
    /\ i \in DOMAIN wops
    /\ wops[i].stage = "rename"
    /\ ~tmpFile
    /\ failed' = TRUE
    /\ settle(i, TRUE)
    /\ UNCHANGED <<notHot, hfiles, hprev, hmeta, hdone, nextIndex, nprocessed,
                   lpc, lname, takes, marks, tmpFile>>

WriteStep ==
    \E i \in DOMAIN wops :
        OpenTmp(i) \/ WriteTmp(i) \/ RenameTmp(i) \/ RenameTmpFails(i)

NextHot ==
    \/ StartHot
    \/ \E l \in 1..HotLoops : ResolveHot(l)
    \/ \E l \in 1..HotLoops : RejectHot(l)
    \/ \E i \in DOMAIN wops : OpenTmp(i)
    \/ \E i \in DOMAIN wops : WriteTmp(i)
    \/ \E i \in DOMAIN wops : RenameTmp(i)
    \/ \E i \in DOMAIN wops : RenameTmpFails(i)

SpecHot == InitHot /\ [][NextHot]_vars

\* The event loop handles every I/O completion that is due.
SpecHotLive == SpecHot /\ WF_vars(WriteStep)

\* C26: at no time are two writes to the output's temporary file in
\* progress, be it two flushes of the hot writer or the final write of
\* buildIndex next to a flush still in flight.
C26_SingleTmpWriter == Len(wops) <= 1

\* C28: every listed file is taken by one loop, once - no position of the
\* listing is ever taken twice, and when buildIndex returns every position
\* has been taken and processed equals the number of listed files.
C28_WorkDistribution ==
    hpc # "idle" =>
        /\ \A i \in DOMAIN takes : Len(takes[i]) <= 1
        /\ \A k, l \in DOMAIN lpc :
              (k # l /\ lpc[k] = "await" /\ lpc[l] = "await")
                  => lname[k] # lname[l]
        /\ hpc = "returned" =>
              /\ \A i \in DOMAIN hfiles : Len(takes[i]) = 1
              /\ nprocessed = Len(hfiles)

\* C28 witness: buildIndex has returned from a listing of which both loops
\* took files and one file was skipped as already done.
C28_Witness ==
    /\ hpc = "returned"
    /\ \E i, j \in DOMAIN takes : takes[i] = <<1>> /\ takes[j] = <<2>>
    /\ \E i \in DOMAIN hfiles : hfiles[i] \in { hprev[k] : k \in DOMAIN hprev }

\* C27: after the n-th markDirty a write of the hot writer completes whose
\* payload was taken at or after that call, unless a write fails.
C27_NoLostCheckpoint ==
    \A n \in 1..(MaxHotFiles + 1) :
        (marks >= n) ~>
            (failed \/ \E k \in DOMAIN saved : saved[k].marks >= n)

\* C27 witness: a markDirty arrived while a write was in flight, and the
\* write that flush's finally block then started has completed with the
\* payload of that call.
C27_Witness ==
    /\ ~failed
    /\ marks >= 2
    /\ \E k \in DOMAIN saved : saved[k].chained /\ saved[k].marks = marks

\* C30: a worker that exits after drain has left no file message
\* unfinished - none queued, none whose handler still awaits its decoder -
\* and a worker has at most one file in hand at any time.
C30_DrainCompleteness ==
    mpc # "start" =>
        \A w \in Workers :
            /\ Cardinality({ j \in inflight : j.w = w }) <= 1
            /\ wstate[w] = "exited" => PendingOn(w) = {}

====
